---------------------------- MODULE Spec2Model ----------------------------
(***************************************************************************)
(* Model of the website intelligence scraper of code-email-engine:        *)
(*   RobustWebsiteScraper  (src/src/scrapers/base_scraper.py)              *)
(*   PageChecker           (src/src/scrapers/analyzers/page_checker.py)    *)
(*   HTMLAnalyzer          (src/src/scrapers/analyzers/html_analyzer.py)   *)
(*   WebsiteIntelligence and its metric groups (models/, metrics/)         *)
(*                                                                         *)
(* One asyncio task per domain runs analyze_website; every await of the    *)
(* code is a step boundary of the model.  Times are integers: elapsed      *)
(* wall time in units of 100 microseconds, load-time samples (rounded to   *)
(* three decimals by the code) in milliseconds.  URLs are records          *)
(* [scheme, host, path]; the host of a domain is its index in the input    *)
(* list, and www marks the www alias of that host.                         *)
(***************************************************************************)
EXTENDS Integers, Sequences, FiniteSets, TLC

VARIABLES
    cfg,        \* constructor arguments of the scraper and the input list
    net,        \* what the network and the served documents can answer
    opc,        \* position of analyze_batch: "start", "gather", "done"
    batchStart, \* loop variable i of _process_batch (1-based)
    results,    \* the result list of _process_batch (records)
    pc,         \* pc[t]: position of the analyze_website task of domain t
    sem,        \* free permits of RobustWebsiteScraper.semaphore
    intel,      \* intel[t]: the WebsiteIntelligence record of task t
    loc,        \* loc[t]: locals of _fetch_with_measurements / analyze_website
    reqs,       \* reqs[t]: the GET requests task t has issued, in order
    probe,      \* probe[t][p]: state of the _check_page_exists task of path p
    psem        \* free permits of PageChecker.semaphore

vars == <<cfg, net, opc, batchStart, results, pc, sem, intel, loc, reqs,
          probe, psem>>

---------------------------------------------------------------------------
(* Bounds of the model *)

MaxDomains == 3
MaxConcurrent == 1
MaxProbeConcurrent == 2

\* The longest sequence of samples given to LoadTimeMetrics.calculate
MaxSamples == 5

\* The length of the long sample sequences (trim_count = 2 from 20 on)
LongSamples == 20

\* The most dot-separated components of a detected CMS version
MaxVersionParts == 3

(* Program constants *)

DefaultMeasurementRounds == 3

None == "None"

---------------------------------------------------------------------------
(* URLs *)

NoUrl == [scheme |-> None, www |-> FALSE, host |-> 0, path |-> ""]

Url(s, h, p) == [scheme |-> s, www |-> FALSE, host |-> h, path |-> p]

\* urls_to_try = [f"https://{domain}", f"http://{domain}"]
UrlsToTry(domain) == << Url("https", domain, ""), Url("http", domain, "") >>

\* str(response.url) after follow_redirects: the server decides where the
\* request ends.
FinalUrl(url, redirect) ==
    CASE redirect = "same"      -> Url(url.scheme, url.host, "/")
      [] redirect = "www"       -> [Url(url.scheme, url.host, "/home")
                                        EXCEPT !.www = TRUE]
      [] redirect = "upgrade"   -> Url("https", url.host, "/")
      [] redirect = "downgrade" -> Url("http", url.host, "/")

\* Faulty variant: the test accepts either scheme
StartsWithHttp(url) == url.scheme \in {"https", "http"}

\* working_url.startswith('https')
StartsWithHttps(url) == url.scheme = "https"

\* re.match(r'(https?://[^/]+)', url).group(1)
ExtractBaseUrl(url) ==
    IF url.scheme \in {"https", "http"} THEN [url EXCEPT !.path = ""]
    ELSE url

---------------------------------------------------------------------------
(* PageChecker.PAGES_TO_CHECK, in source order: <<path, object, attribute>> *)

PAGES_TO_CHECK == <<
    <<"/contact", "business", "has_contact_page">>,
    <<"/contact-us", "business", "has_contact_page">>,
    <<"/contactus", "business", "has_contact_page">>,
    <<"/get-in-touch", "business", "has_contact_page">>,
    <<"/reach-us", "business", "has_contact_page">>,
    <<"/about", "business", "has_about_page">>,
    <<"/about-us", "business", "has_about_page">>,
    <<"/aboutus", "business", "has_about_page">>,
    <<"/company", "business", "has_about_page">>,
    <<"/who-we-are", "business", "has_about_page">>,
    <<"/our-story", "business", "has_about_page">>,
    <<"/pricing", "business", "has_pricing_page">>,
    <<"/prices", "business", "has_pricing_page">>,
    <<"/plans", "business", "has_pricing_page">>,
    <<"/packages", "business", "has_pricing_page">>,
    <<"/buy", "business", "has_pricing_page">>,
    <<"/privacy", "business", "has_privacy_policy">>,
    <<"/privacy-policy", "business", "has_privacy_policy">>,
    <<"/privacypolicy", "business", "has_privacy_policy">>,
    <<"/privacy_policy", "business", "has_privacy_policy">>,
    <<"/data-privacy", "business", "has_privacy_policy">>,
    <<"/terms", "business", "has_terms_of_service">>,
    <<"/terms-of-service", "business", "has_terms_of_service">>,
    <<"/terms-and-conditions", "business", "has_terms_of_service">>,
    <<"/termsofservice", "business", "has_terms_of_service">>,
    <<"/tos", "business", "has_terms_of_service">>,
    <<"/legal", "business", "has_terms_of_service">>,
    <<"/terms-of-use", "business", "has_terms_of_service">>,
    <<"/sitemap.xml", "seo", "has_sitemap">>,
    <<"/sitemap", "seo", "has_sitemap">>,
    <<"/sitemap_index.xml", "seo", "has_sitemap">>,
    <<"/sitemap-index.xml", "seo", "has_sitemap">>,
    <<"/robots.txt", "seo", "has_robots_txt">> >>

BLOG_PATHS == << "/blog", "/news", "/articles", "/insights", "/resources",
                 "/posts", "/updates", "/stories", "/journal" >>

CatalogAttrs == { PAGES_TO_CHECK[i][3] : i \in DOMAIN PAGES_TO_CHECK }

CatalogPaths == { PAGES_TO_CHECK[i][1] : i \in DOMAIN PAGES_TO_CHECK }

BlogPathSet == { BLOG_PATHS[i] : i \in DOMAIN BLOG_PATHS }

\* self.PAGES_TO_CHECK[path]
CatalogEntry(path) ==
    LET i == CHOOSE j \in DOMAIN PAGES_TO_CHECK : PAGES_TO_CHECK[j][1] = path
    IN  PAGES_TO_CHECK[i]

AttrOf(path) == CatalogEntry(path)[3]

\* The candidate paths of one attribute
CandidatePaths(attr) == { p \in CatalogPaths : AttrOf(p) = attr }

\* Rank of a path among the candidates of its attribute, in source order
Rank(path) ==
    LET i == CHOOSE j \in DOMAIN PAGES_TO_CHECK : PAGES_TO_CHECK[j][1] = path
    IN  Cardinality({ j \in 1..i : PAGES_TO_CHECK[j][3] = PAGES_TO_CHECK[i][3] })

\* A catalog cut down to the first k candidate paths of the given attributes
\* (the catalog is a configuration value; the full one has 33 paths)
SubCatalog(attrs, k) == { p \in CatalogPaths : AttrOf(p) \in attrs /\ Rank(p) <= k }

---------------------------------------------------------------------------
(* Sequences of numbers *)

RECURSIVE SumSeq(_)
SumSeq(s) == IF s = <<>> THEN 0 ELSE Head(s) + SumSeq(Tail(s))

RECURSIVE Insert(_, _)
Insert(x, s) ==
    IF s = <<>> THEN <<x>>
    ELSE IF x <= Head(s) THEN <<x>> \o s
    ELSE <<Head(s)>> \o Insert(x, Tail(s))

RECURSIVE Sorted(_)
Sorted(s) == IF s = <<>> THEN <<>> ELSE Insert(Head(s), Sorted(Tail(s)))

Max2(a, b) == IF a >= b THEN a ELSE b

Min2(a, b) == IF a <= b THEN a ELSE b

\* A rational number num/den (den > 0); 0 is Rat(0, 1)
Rat(n, d) == [num |-> n, den |-> d]

\* q > k for a rational q and an integer k
RatGt(q, k) == q.num > k * q.den

\* round(t, 3) of an elapsed time in units of 100 microseconds, in
\* milliseconds (a measured float is never an exact decimal tie)
Round3(e) == (e + 5) \div 10

---------------------------------------------------------------------------
(* LoadTimeMetrics.calculate over samples in ms.  Percentiles, iqr and the  *)
(* means are exact rationals; std_dev and coefficient_of_variation are the  *)
(* square roots of exact rationals; confidence_score is in hundredths.      *)

\* The non-negative square root of the rational q; 0.0 is Sqrt(Rat(0, 1))
Sqrt(q) == [radicand |-> q]

RECURSIVE SumSquares(_)
SumSquares(s) ==
    IF s = <<>> THEN 0 ELSE Head(s) * Head(s) + SumSquares(Tail(s))

\* np.percentile(sorted_samples, q): linear interpolation between the two
\* order statistics around position (n - 1) * q / 100
Percentile(sorted, q) ==
    LET n == Len(sorted)
        pos == (n - 1) * q
        lo == pos \div 100 + 1
        hi == Min2(lo + 1, n)
        f == pos % 100
    IN  Rat(sorted[lo] * (100 - f) + sorted[hi] * f, 100)

\* floor(m * d / mm) for 0 <= m <= mm <= 40000, without a product above d
ScaledFloor(m, d, mm) == m * (d \div mm) + (m * (d % mm)) \div mm

\* round(sample_factor * consistency_factor, 2) in hundredths, where
\* sample_factor = min(1.0, n / 5) and consistency_factor = max(0, 1 - cv)
\* for cv = Sqrt(q).  With F = 100 * sample_factor, the product reaches
\* j - 1/2 exactly when q <= (2F - 2j + 1)^2 / (2F)^2, which holds for the
\* j up to some k and for no other: k is found among the multiples of 10
\* first, then within the next ten.  round() resolves a tie towards the
\* even hundredth.
Confidence(n, q) ==
    LET F == Min2(100, 20 * n)
        mm == 4 * F * F
        M(j) == (2 * F - 2 * j + 1) * (2 * F - 2 * j + 1)
        Reached(j) == q.num <= ScaledFloor(M(j), q.den, mm)
        tens == { 10 * Cardinality({b \in 1..(F \div 10) : Reached(10 * b)}) }
        reached == { t + Cardinality({j \in (t + 1)..Min2(t + 9, F) : Reached(j)}) :
                     t \in tens }
        rounded == { IF /\ k > 0
                        /\ q.num = ScaledFloor(M(k), q.den, mm)
                        /\ (M(k) * (q.den % mm)) % mm = 0
                        /\ k % 2 = 1
                     THEN k - 1 ELSE k : k \in reached }
    IN  Rat(CHOOSE k \in rounded : TRUE, 100)

\* Faulty variant: only the smallest samples are trimmed
TrimmedLowEnd(sorted) ==
    LET n == Len(sorted)
        trim_count == Max2(1, n \div 10)
    IN  IF n > 4 THEN SubSeq(sorted, trim_count + 1, n) ELSE sorted

\* trimmed = sorted_samples[trim_count:-trim_count] if n > 4 else
\* sorted_samples, with trim_count = max(1, n // 10)
Trimmed(sorted) ==
    LET n == Len(sorted)
        trim_count == Max2(1, n \div 10)
    IN  IF n > 4 THEN SubSeq(sorted, trim_count + 1, n - trim_count)
        ELSE sorted

\* Lines 32-62, the statements after the guard on len(samples): the record
\* they leave and whether one of them raised.  statistics.median raises
\* StatisticsError on no data; the other library calls are defined on the
\* data that reaches them.  (A sequence of one-element sets, so that every
\* intermediate value is computed once.)
CalculateStatistics(r) ==
    LET input == { [rec |-> x, sorted |-> Sorted(x.samples)] : x \in {r} }
        sums == { [rec |-> x.rec, sorted |-> x.sorted, n |-> Len(x.sorted),
                   s |-> SumSeq(x.sorted),
                   dev |-> Len(x.sorted) * SumSquares(x.sorted)
                               - SumSeq(x.sorted) * SumSeq(x.sorted)] :
                  x \in input }
        StdDev(x) == IF x.n > 1 THEN Sqrt(Rat(x.dev, x.n * (x.n - 1)))
                     ELSE Sqrt(Rat(0, 1))
        Cv2(x) == IF x.s > 0 /\ x.n > 1
                  THEN Rat(x.n * x.dev, (x.n - 1) * x.s * x.s)
                  ELSE Rat(0, 1)
        out == { IF x.n = 0
                 THEN [raised |-> TRUE, value |-> x.rec]
                 ELSE [raised |-> FALSE,
                       value |->
                         [x.rec EXCEPT
                            !.median =
                                IF x.n % 2 = 1
                                THEN Rat(x.sorted[(x.n + 1) \div 2], 1)
                                ELSE Rat(x.sorted[x.n \div 2]
                                             + x.sorted[x.n \div 2 + 1], 2),
                            !.percentile_90 = Percentile(x.sorted, 90),
                            !.percentile_95 = Percentile(x.sorted, 95),
                            !.iqr = Rat(Percentile(x.sorted, 75).num
                                           - Percentile(x.sorted, 25).num, 100),
                            !.trimmed_mean =
                                Rat(SumSeq(Trimmed(x.sorted)),
                                    Len(Trimmed(x.sorted))),
                            !.std_dev = StdDev(x),
                            !.coefficient_of_variation = Sqrt(Cv2(x)),
                            !.confidence_score = Confidence(x.n, Cv2(x))]] :
                 x \in sums }
    IN  CHOOSE o \in out : TRUE

\* Faulty variant: the statistics computed whatever the number of samples
LoadTimeOutcomeUnguarded(r) == CalculateStatistics(r)

\* LoadTimeMetrics.calculate: the record it leaves and whether it raised
LoadTimeOutcome(r) ==
    IF Len(r.samples) < 2
    THEN [raised |-> FALSE,
          value |-> IF r.samples # <<>>
                    THEN [r EXCEPT !.median = Rat(r.samples[1], 1),
                                   !.trimmed_mean = Rat(r.samples[1], 1)]
                    ELSE r]
    ELSE CalculateStatistics(r)

\* LoadTimeMetrics.calculate called where it returns
LoadTimeCalculate(r) == LoadTimeOutcome(r).value

---------------------------------------------------------------------------
(* WebsiteIntelligence(domain=domain): the dataclass defaults.  Times are  *)
(* in ms; cms_version is the sequence of the dot-separated components of   *)
(* the version string (-1: a component that is no integer), <<>> for None. *)

NewIntel(domain) ==
    [ domain |-> domain,
      status_code |-> 0,
      final_url |-> NoUrl,
      title |-> None,
      cms_detected |-> None,
      cms_version |-> <<>>,
      is_outdated_cms |-> FALSE,
      technologies |-> {},
      is_mobile_friendly |-> TRUE,
      has_viewport_meta |-> FALSE,
      error |-> None,
      \* performance
      samples |-> <<>>,
      median |-> Rat(0, 1),
      trimmed_mean |-> Rat(0, 1),
      percentile_90 |-> Rat(0, 1),
      percentile_95 |-> Rat(0, 1),
      std_dev |-> Sqrt(Rat(0, 1)),
      iqr |-> Rat(0, 1),
      coefficient_of_variation |-> Sqrt(Rat(0, 1)),
      confidence_score |-> Rat(0, 1),
      html_size_bytes |-> 0,
      ttfb |-> 0,
      performance_grade |-> "unknown",
      \* seo
      has_meta_description |-> FALSE,
      has_og_tags |-> FALSE,
      has_twitter_cards |-> FALSE,
      has_structured_data |-> FALSE,
      has_sitemap |-> FALSE,
      has_robots_txt |-> FALSE,
      canonical_url |-> FALSE,
      h1_count |-> 0,
      h2_count |-> 0,
      image_count |-> 0,
      images_without_alt |-> 0,
      seo_score |-> 0,
      \* security
      has_ssl |-> FALSE,
      has_hsts |-> FALSE,
      has_csp |-> FALSE,
      has_x_frame_options |-> FALSE,
      has_x_content_type_options |-> FALSE,
      has_x_xss_protection |-> FALSE,
      security_headers_score |-> 0,
      \* accessibility
      has_lang_attribute |-> FALSE,
      has_skip_link |-> FALSE,
      forms_have_labels |-> TRUE,
      images_have_alt |-> TRUE,
      has_aria_landmarks |-> FALSE,
      accessibility_score |-> 0,
      \* business
      has_contact_page |-> FALSE,
      has_contact_form |-> FALSE,
      has_phone_number |-> FALSE,
      has_email |-> FALSE,
      has_physical_address |-> FALSE,
      has_social_links |-> FALSE,
      social_platforms |-> 0,
      has_blog |-> FALSE,
      has_pricing_page |-> FALSE,
      has_about_page |-> FALSE,
      has_privacy_policy |-> FALSE,
      has_terms_of_service |-> FALSE,
      copyright_year |-> 0,
      business_legitimacy_score |-> 0,
      \* aggregate
      overall_score |-> 0,
      buyer_priority_score |-> 0 ]


---------------------------------------------------------------------------
(* Served documents: what the extractors of HTMLAnalyzer find in the HTML  *)
(* text of a response.  body = FALSE is an empty response text.            *)

BareDoc ==
    [ body |-> TRUE, size |-> 1200, title |-> None,
      meta_description |-> FALSE, og |-> FALSE, twitter |-> FALSE,
      structured |-> FALSE, canonical |-> FALSE, h1 |-> 0, h2 |-> 0,
      images |-> 0, images_no_alt |-> 0,
      lang |-> FALSE, skip_link |-> FALSE, landmarks |-> FALSE,
      form_labels |-> TRUE,
      cms |-> None, version |-> <<>>, technologies |-> {},
      viewport |-> "none",
      phone |-> FALSE, email |-> FALSE, address |-> FALSE, social |-> 0,
      blog |-> FALSE, year |-> 0, contact_form |-> FALSE, pricing |-> FALSE ]

EmptyBody == [BareDoc EXCEPT !.body = FALSE, !.size = 0]

\* A WordPress 4.9 site with most signals present, five images of which
\* four lack alt text, a pricing link and a blog link
RichDoc ==
    [ body |-> TRUE, size |-> 250000, title |-> "Acme",
      meta_description |-> TRUE, og |-> TRUE, twitter |-> TRUE,
      structured |-> TRUE, canonical |-> TRUE, h1 |-> 1, h2 |-> 3,
      images |-> 5, images_no_alt |-> 4,
      lang |-> TRUE, skip_link |-> TRUE, landmarks |-> TRUE,
      form_labels |-> FALSE,
      cms |-> "wordpress", version |-> <<4, 9>>, technologies |-> {"jquery"},
      viewport |-> "responsive",
      phone |-> TRUE, email |-> TRUE, address |-> TRUE, social |-> 3,
      blog |-> TRUE, year |-> 2024, contact_form |-> TRUE, pricing |-> TRUE ]

\* A page that links to /pricing and nothing else of note
PricingDoc == [BareDoc EXCEPT !.pricing = TRUE, !.h1 = 2, !.size = 600000]

---------------------------------------------------------------------------
(* CMSDetector *)

CURRENT_VERSIONS ==
    [ wordpress |-> <<6, 4>>, joomla |-> <<5, 0>>, drupal |-> <<10, 0>> ]

\* Faulty variant: a version one major behind is outdated whatever the
\* current minor version
IsOutdatedInSymmetric(current_versions, cms, version) ==
    IF version = <<>> \/ cms \notin DOMAIN current_versions THEN FALSE
    ELSE LET current == current_versions[cms]
             detected == SubSeq(version, 1, Min2(2, Len(version)))
         IN  IF \E i \in DOMAIN detected : detected[i] < 0
             THEN FALSE
             ELSE \/ detected[1] < current[1] - 1
                  \/ detected[1] = current[1] - 1

\* The body of is_outdated for a table of current versions
IsOutdatedIn(current_versions, cms, version) ==
    IF version = <<>> \/ cms \notin DOMAIN current_versions THEN FALSE
    ELSE LET current == current_versions[cms]
             detected == SubSeq(version, 1, Min2(2, Len(version)))
         IN  IF \E i \in DOMAIN detected : detected[i] < 0
             THEN FALSE   \* ValueError
             ELSE \/ detected[1] < current[1] - 1
                  \/ /\ detected[1] = current[1] - 1
                     /\ Len(current) > 1
                     /\ current[2] > 5

\* CMSDetector.is_outdated
IsOutdated(cms, version) == IsOutdatedIn(CURRENT_VERSIONS, cms, version)

---------------------------------------------------------------------------
(* HTMLAnalyzer.analyze: seven extractors in order inside one try/except.  *)
(* stages is the number of extractors that complete before an exception    *)
(* is raised (7: none is raised); the handler swallows it.                 *)

ExtractBasicInfo(doc, r) == [r EXCEPT !.title = doc.title]

ExtractSeoMetrics(doc, r) ==
    [r EXCEPT !.has_meta_description = doc.meta_description,
              !.has_og_tags = doc.og,
              !.has_twitter_cards = doc.twitter,
              !.has_structured_data = doc.structured,
              !.canonical_url = IF doc.canonical THEN TRUE ELSE @,
              !.h1_count = doc.h1,
              !.h2_count = doc.h2,
              !.image_count = doc.images,
              !.images_without_alt = doc.images_no_alt]

ExtractAccessibilityMetrics(doc, r) ==
    [r EXCEPT !.has_lang_attribute = doc.lang,
              !.has_skip_link = doc.skip_link,
              !.has_aria_landmarks = doc.landmarks,
              !.forms_have_labels = doc.form_labels,
              !.images_have_alt = (r.images_without_alt = 0)]

DetectCms(doc, r) ==
    [r EXCEPT !.cms_detected = doc.cms,
              !.cms_version = doc.version,
              !.is_outdated_cms = IF doc.cms # None
                                  THEN IsOutdated(doc.cms, doc.version)
                                  ELSE @]

DetectTechnologies(doc, r) == [r EXCEPT !.technologies = doc.technologies]

ExtractMobileMetrics(doc, r) ==
    [r EXCEPT !.has_viewport_meta = (doc.viewport # "none"),
              !.is_mobile_friendly = (doc.viewport = "responsive")]

ExtractBusinessSignals(doc, r) ==
    [r EXCEPT !.has_phone_number = IF doc.phone THEN TRUE ELSE @,
              !.has_email = doc.email,
              !.has_physical_address = doc.address,
              !.social_platforms = Max2(@, doc.social),
              !.has_social_links = (Max2(r.social_platforms, doc.social) > 0),
              !.has_blog = doc.blog,
              !.copyright_year = IF doc.year # 0 THEN doc.year ELSE @,
              !.has_contact_form = IF doc.contact_form THEN TRUE ELSE @,
              !.has_pricing_page = doc.pricing]

ExtractorCount == 7

HTMLAnalyze(doc, stages, r) ==
    LET r1 == IF stages >= 1 THEN ExtractBasicInfo(doc, r) ELSE r
        r2 == IF stages >= 2 THEN ExtractSeoMetrics(doc, r1) ELSE r1
        r3 == IF stages >= 3 THEN ExtractAccessibilityMetrics(doc, r2) ELSE r2
        r4 == IF stages >= 4 THEN DetectCms(doc, r3) ELSE r3
        r5 == IF stages >= 5 THEN DetectTechnologies(doc, r4) ELSE r4
        r6 == IF stages >= 6 THEN ExtractMobileMetrics(doc, r5) ELSE r5
        r7 == IF stages >= 7 THEN ExtractBusinessSignals(doc, r6) ELSE r6
    IN  r7

---------------------------------------------------------------------------
(* RobustWebsiteScraper._parse_security_headers: headers is the set of     *)
(* lower-cased header names of the response.                               *)

ParseSecurityHeaders(headers, r) ==
    [r EXCEPT !.has_hsts = ("strict-transport-security" \in headers),
              !.has_csp = ("content-security-policy" \in headers),
              !.has_x_frame_options = ("x-frame-options" \in headers),
              !.has_x_content_type_options = ("x-content-type-options" \in headers),
              !.has_x_xss_protection = ("x-xss-protection" \in headers)]

SecurityHeaderNames ==
    { "strict-transport-security", "content-security-policy",
      "x-frame-options", "x-content-type-options", "x-xss-protection" }

---------------------------------------------------------------------------
(* Score rubrics of the metric groups *)

\* PerformanceMetrics.calculate_grade
CalculateGrade(r) ==
    LET load_time == IF r.trimmed_mean.num # 0 THEN r.trimmed_mean ELSE r.median
        s1 == CASE RatGt(load_time, 5000) -> 100 - 40
                [] ~RatGt(load_time, 5000) /\ RatGt(load_time, 3000) -> 100 - 25
                [] ~RatGt(load_time, 3000) /\ RatGt(load_time, 2000) -> 100 - 10
                [] ~RatGt(load_time, 2000) /\ RatGt(load_time, 1000) -> 100 - 5
                [] OTHER -> 100
        s2 == IF r.html_size_bytes > 500000 THEN s1 - 20
              ELSE IF r.html_size_bytes > 200000 THEN s1 - 10
              ELSE s1
        \* ttfb is in ms: > 1 s, > 0.5 s
        score == IF r.ttfb > 1000 THEN s2 - 15
                 ELSE IF r.ttfb > 500 THEN s2 - 5
                 ELSE s2
    IN  [r EXCEPT !.performance_grade =
            IF score >= 90 THEN "A"
            ELSE IF score >= 80 THEN "B"
            ELSE IF score >= 70 THEN "C"
            ELSE IF score >= 60 THEN "D"
            ELSE "F"]

\* PerformanceMetrics.get_numeric_score
GetNumericScore(r) ==
    CASE r.performance_grade = "A" -> 100
      [] r.performance_grade = "B" -> 85
      [] r.performance_grade = "C" -> 70
      [] r.performance_grade = "D" -> 55
      [] r.performance_grade = "F" -> 40
      [] OTHER -> 50

\* int(10 * (1 - images_without_alt / image_count)) in double precision:
\* the float product falls just short of the exact integer for these pairs
\* <<images_without_alt, image_count>> (image_count <= 12)
AltRatioShortfall == { <<4, 5>>, <<8, 10>>, <<9, 10>> }

AltRatioPoints(without, count) ==
    (10 * (count - without)) \div count
        - (IF <<without, count>> \in AltRatioShortfall THEN 1 ELSE 0)

\* SEOMetrics.calculate_score: the points before the clamp
SeoRawScore(r) ==
    LET B(flag, pts) == IF flag THEN pts ELSE 0
        score == B(r.has_meta_description, 15)
               + B(r.has_og_tags, 10)
               + B(r.has_twitter_cards, 5)
               + B(r.has_structured_data, 15)
               + B(r.has_sitemap, 10)
               + B(r.has_robots_txt, 5)
               + B(r.h1_count = 1, 10)
               + B(r.h2_count > 0, 5)
               + (IF r.images_without_alt = 0 /\ r.image_count > 0 THEN 10
                  ELSE IF r.image_count > 0
                       THEN AltRatioPoints(r.images_without_alt, r.image_count)
                       ELSE 0)
               + B(r.canonical_url, 5)
               - B(r.h1_count > 1, 5)
               - B(r.h1_count = 0, 10)
    IN  score

\* Faulty variant: the score stored without the clamp to 0..100
CalculateSeoScoreUnclamped(r) ==
    [r EXCEPT !.seo_score = SeoRawScore(r)]

\* SEOMetrics.calculate_score
CalculateSeoScore(r) ==
    [r EXCEPT !.seo_score = Max2(0, Min2(100, SeoRawScore(r)))]

\* SecurityMetrics.calculate_score
CalculateSecurityScore(r) ==
    LET B(flag, pts) == IF flag THEN pts ELSE 0
    IN  [r EXCEPT !.security_headers_score =
              B(r.has_ssl, 30) + B(r.has_hsts, 20) + B(r.has_csp, 20)
            + B(r.has_x_frame_options, 10)
            + B(r.has_x_content_type_options, 10)
            + B(r.has_x_xss_protection, 10)]

\* Faulty variant: no points for forms_have_labels
CalculateAccessibilityScoreNoForms(r) ==
    LET B(flag, pts) == IF flag THEN pts ELSE 0
    IN  [r EXCEPT !.accessibility_score =
              B(r.has_lang_attribute, 20) + B(r.has_skip_link, 15)
            + B(r.images_have_alt, 25) + B(r.has_aria_landmarks, 20)]

\* AccessibilityMetrics.calculate_score
CalculateAccessibilityScore(r) ==
    LET B(flag, pts) == IF flag THEN pts ELSE 0
    IN  [r EXCEPT !.accessibility_score =
              B(r.has_lang_attribute, 20) + B(r.has_skip_link, 15)
            + B(r.forms_have_labels, 20) + B(r.images_have_alt, 25)
            + B(r.has_aria_landmarks, 20)]

\* BusinessSignals.calculate_score: the points before the cap
BusinessRawScore(r) ==
    LET B(flag, pts) == IF flag THEN pts ELSE 0
        score == B(r.has_contact_page, 10) + B(r.has_contact_form, 5)
               + B(r.has_phone_number, 15) + B(r.has_email, 10)
               + B(r.has_physical_address, 15) + B(r.has_social_links, 5)
               + B(r.social_platforms >= 3, 5) + B(r.has_about_page, 10)
               + B(r.has_privacy_policy, 10) + B(r.has_terms_of_service, 5)
               + B(r.copyright_year # 0 /\ r.copyright_year >= 2023, 10)
    IN  score

\* Faulty variant: the points added to the score of the previous call
\* instead of starting from 0
CalculateBusinessScoreAccumulating(r) ==
    [r EXCEPT !.business_legitimacy_score = Min2(100, @ + BusinessRawScore(r))]

\* BusinessSignals.calculate_score
CalculateBusinessScore(r) ==
    [r EXCEPT !.business_legitimacy_score = Min2(100, BusinessRawScore(r))]

\* int(issues_score * (business_legitimacy_score / 100)) in double
\* precision: for multiples of 5 the float product falls just short of
\* the exact integer for this pair <<issues_score, legitimacy>> only
PriorityShortfall == { <<90, 70>> }

\* WebsiteIntelligence._calculate_buyer_priority
CalculateBuyerPriority(r) ==
    LET B(flag, pts) == IF flag THEN pts ELSE 0
        load_time == r.trimmed_mean
        issues_score ==
              (IF RatGt(load_time, 3000) THEN 20
               ELSE IF RatGt(load_time, 2000) THEN 10 ELSE 0)
            + B(~r.has_ssl, 25)
            + B(r.security_headers_score < 50, 15)
            + B(r.seo_score < 50, 20)
            + B(r.is_outdated_cms, 25)
        legitimacy == r.business_legitimacy_score
    IN  [r EXCEPT !.buyer_priority_score =
            (issues_score * legitimacy) \div 100
              - (IF <<issues_score, legitimacy>> \in PriorityShortfall
                 THEN 1 ELSE 0)]

\* Faulty variant: the weights of performance and SEO exchanged
WeightedOverallSwapped(r) ==
    ( 20 * GetNumericScore(r) + 25 * r.seo_score
    + 20 * r.security_headers_score + 15 * r.accessibility_score
    + 20 * r.business_legitimacy_score ) \div 100

\* The weighted sum of calculate_overall_scores; the float sum truncates
\* to the exact floor for every combination of group scores
WeightedOverall(r) ==
    ( 25 * GetNumericScore(r) + 20 * r.seo_score
    + 20 * r.security_headers_score + 15 * r.accessibility_score
    + 20 * r.business_legitimacy_score ) \div 100

\* WebsiteIntelligence.calculate_overall_scores: each statement works on
\* the record the statement before it left (a sequence of one-element
\* sets, so that every intermediate record is computed once)
CalculateOverallScores(r) ==
    LET graded == { CalculateGrade(r) }
        seo == { CalculateSeoScore(x) : x \in graded }
        security == { CalculateSecurityScore(x) : x \in seo }
        accessibility == { CalculateAccessibilityScore(x) : x \in security }
        business == { CalculateBusinessScore(x) : x \in accessibility }
        overall == { [x EXCEPT !.overall_score = WeightedOverall(x)] :
                     x \in business }
        priority == { CalculateBuyerPriority(x) : x \in overall }
    IN  CHOOSE x \in priority : TRUE

---------------------------------------------------------------------------
(* Outcomes of one HTTP request, as the caller sees them: a response       *)
(* (status, where the redirects ended, the served document, the names of   *)
(* the response headers, the elapsed time) or a raised exception.          *)

Response(status, redirect, doc, headers, elapsed) ==
    [ kind |-> "response", exc |-> None, status |-> status,
      redirect |-> redirect, doc |-> doc, headers |-> headers,
      elapsed |-> elapsed ]

Raise(exc) ==
    [ kind |-> "raise", exc |-> exc, status |-> 0, redirect |-> "same",
      doc |-> EmptyBody, headers |-> {}, elapsed |-> 0 ]

ExceptionKinds ==
    { "TimeoutException", "ConnectError", "TooManyRedirects", "Exception" }

\* Faulty variant: the tag of the first attempt that raised is kept
OnFetchExceptionKeepFirst(out, r) ==
    IF r.error # None THEN r
    ELSE CASE out.exc = "TimeoutException" -> [r EXCEPT !.error = "timeout"]
           [] out.exc = "ConnectError"     -> [r EXCEPT !.error = "connection_failed"]
           [] out.exc = "TooManyRedirects" -> [r EXCEPT !.error = "too_many_redirects"]
           [] OTHER                        -> [r EXCEPT !.error = "message"]

\* The except clauses of _fetch_with_measurements (lines 182-192); a raised
\* HTTPStatusError carries its response's status
OnFetchException(out, r) ==
    CASE out.exc = "TimeoutException" -> [r EXCEPT !.error = "timeout"]
      [] out.exc = "ConnectError"     -> [r EXCEPT !.error = "connection_failed"]
      [] out.exc = "TooManyRedirects" -> [r EXCEPT !.error = "too_many_redirects"]
      [] out.exc = "HTTPStatusError"  -> [r EXCEPT !.error = "http_error",
                                                   !.status_code = out.status]
      [] OTHER                        -> [r EXCEPT !.error = "message"]

\* Every exception the requests and the extractors raise derives from
\* Exception: a clause "except Exception" catches each of them, a clause
\* naming a class catches that class
Caught(handlers, exc) == exc \in handlers \/ "Exception" \in handlers

\* The except clauses of the first GET (lines 182-192)
FetchHandlers ==
    { "TimeoutException", "ConnectError", "TooManyRedirects",
      "HTTPStatusError", "Exception" }

\* Faulty variant: the repeat loop catches connection errors only
RepeatHandlersNarrow == { "ConnectError" }

\* "except Exception: pass" of a repeat measurement (lines 173-174)
RepeatHandlers == { "Exception" }

\* Faulty variant: no except clause at all
NoHandlers == {}

\* "except Exception: pass" of HTMLAnalyzer.analyze (lines 104-106)
AnalyzeHandlers == { "Exception" }

\* The except clauses of _check_page_exists (lines 255-264)
ProbeHandlers ==
    { "TimeoutException", "ConnectError", "TooManyRedirects",
      "HTTPStatusError", "Exception" }

---------------------------------------------------------------------------
(* State of the tasks *)

Tasks == 1..Len(cfg.domains)

\* batch_size = self.max_concurrent * 2
BatchSize == cfg.max_concurrent * 2

\* domains[i:i + batch_size], as task indexes
Batch(i) == i .. Min2(i + BatchSize - 1, Len(cfg.domains))

NoProbes == [p \in {} |-> 0]

\* The attributes check_pages may set, as they stand in a record
Flags(r) == [a \in CatalogAttrs \cup {"has_blog"} |-> r[a]]

NewLoc ==
    [ url_index |-> 1, working_url |-> NoUrl, html_content |-> EmptyBody,
      response_headers |-> {}, load_times |-> <<>>, rounds_left |-> 0,
      main_done |-> FALSE, blog_done |-> FALSE,
      \* history, read by no action: the first GETs with what the network
      \* answered, the repeat GETs by outcome, the extractors completed
      \* (-1: analyze not called), the record when probing started, the
      \* phases run and the calls of calculate_overall_scores
      attempts |-> <<>>, repeats_ok |-> 0, repeats_raised |-> 0,
      parse_stages |-> -1, before_probes |-> Flags(NewIntel(0)),
      phases |-> <<>>, aggregations |-> 0 ]

NewProbe(url) ==
    [ st |-> "wait", url |-> url, exists |-> FALSE,
      \* history: requests issued, status of the HEAD response and of the
      \* last response received (0: none), whether the last request raised,
      \* whether the coroutine ended by an exception
      heads |-> 0, gets |-> 0, head_status |-> 0, last_status |-> 0,
      raised |-> FALSE, threw |-> FALSE ]

InitWith(c, n) ==
    /\ cfg = c
    /\ net = n
    /\ opc = "start"
    /\ batchStart = 1
    /\ results = <<>>
    /\ pc = [t \in 1..Len(c.domains) |-> "unborn"]
    /\ sem = c.max_concurrent
    /\ intel = [t \in 1..Len(c.domains) |-> NewIntel(c.domains[t])]
    /\ loc = [t \in 1..Len(c.domains) |-> NewLoc]
    /\ reqs = [t \in 1..Len(c.domains) |-> <<>>]
    /\ probe = [t \in 1..Len(c.domains) |-> NoProbes]
    /\ psem = c.probe_max_concurrent

---------------------------------------------------------------------------
(* analyze_batch / _process_batch / _process_with_progress *)

\* tasks = [self.analyze_website(domain, client) for domain in batch]
SpawnBatch(i) ==
    pc' = [t \in Tasks |-> IF t \in Batch(i) THEN "acquire" ELSE pc[t]]

\* Faulty variant: every result of the gather is kept, record or exception
RECURSIVE CollectedUnfiltered(_, _)
CollectedUnfiltered(i, j) ==
    IF i > j THEN <<>>
    ELSE <<intel[i]>> \o CollectedUnfiltered(i + 1, j)

\* Faulty variant: the records in the reverse of the task order
RECURSIVE CollectedReversed(_, _)
CollectedReversed(i, j) ==
    IF i > j THEN <<>>
    ELSE CollectedReversed(i + 1, j)
         \o (IF pc[i] = "returned" THEN <<intel[i]>> ELSE <<>>)

\* The records of the tasks i..j that returned one, in task order
RECURSIVE Collected(_, _)
Collected(i, j) ==
    IF i > j THEN <<>>
    ELSE (IF pc[i] = "returned" THEN <<intel[i]>> ELSE <<>>)
         \o Collected(i + 1, j)

StartBatch ==
    /\ opc = "start"
    /\ IF Len(cfg.domains) = 0
       THEN opc' = "done" /\ UNCHANGED pc
       ELSE opc' = "gather" /\ SpawnBatch(1)
    /\ UNCHANGED <<cfg, net, batchStart, results, sem, intel, loc, reqs,
                   probe, psem>>

\* Faulty variant: the loop goes on as soon as one task of the sub-batch
\* has finished
CollectBatchEarly ==
    /\ opc = "gather"
    /\ \E t \in Batch(batchStart) : pc[t] \in {"returned", "raised"}
    /\ results' = results \o
           Collected(batchStart, Min2(batchStart + BatchSize - 1, Len(cfg.domains)))
    /\ batchStart' = batchStart + BatchSize
    /\ IF batchStart + BatchSize <= Len(cfg.domains)
       THEN opc' = "gather" /\ SpawnBatch(batchStart + BatchSize)
       ELSE opc' = "done" /\ UNCHANGED pc
    /\ UNCHANGED <<cfg, net, sem, intel, loc, reqs, probe, psem>>

\* The gather of the current sub-batch completes; its results are collected
\* and the loop goes on to the next sub-batch or returns
CollectBatch ==
    /\ opc = "gather"
    /\ \A t \in Batch(batchStart) : pc[t] \in {"returned", "raised"}
    /\ results' = results \o
           Collected(batchStart, Min2(batchStart + BatchSize - 1, Len(cfg.domains)))
    /\ batchStart' = batchStart + BatchSize
    /\ IF batchStart + BatchSize <= Len(cfg.domains)
       THEN opc' = "gather" /\ SpawnBatch(batchStart + BatchSize)
       ELSE opc' = "done" /\ UNCHANGED pc
    /\ UNCHANGED <<cfg, net, sem, intel, loc, reqs, probe, psem>>

---------------------------------------------------------------------------
(* analyze_website and _fetch_with_measurements *)

\* Faulty variant: the slot-holding section entered without a free slot
AcquireUnguarded(t) ==
    /\ pc[t] = "acquire"
    /\ sem' = sem - 1
    /\ pc' = [pc EXCEPT ![t] = "fetch"]
    /\ UNCHANGED <<cfg, net, opc, batchStart, results, intel, loc, reqs,
                   probe, psem>>

\* async with self.semaphore: entry
Acquire(t) ==
    /\ pc[t] = "acquire"
    /\ sem > 0
    /\ sem' = sem - 1
    /\ pc' = [pc EXCEPT ![t] = "fetch"]
    /\ UNCHANGED <<cfg, net, opc, batchStart, results, intel, loc, reqs,
                   probe, psem>>

\* Faulty variant: the slot is not released when an exception leaves the
\* section
PropagateKeepsSlot(t) ==
    /\ UNCHANGED sem
    /\ pc' = [pc EXCEPT ![t] = "raised"]

\* An exception leaves analyze_website: "async with" releases the slot on
\* the way out and the task ends with the exception
Propagate(t) ==
    /\ sem' = sem + 1
    /\ pc' = [pc EXCEPT ![t] = "raised"]

\* Faulty variant: the samples are stored only when there are two or more
FinishFetchIfSeveral(load_times, r) ==
    IF Len(load_times) >= 2
    THEN LoadTimeCalculate(
             [r EXCEPT !.samples =
                 [i \in 1..Len(load_times) |-> Round3(load_times[i])]])
    ELSE r

\* Lines 194-201: load time statistics from the collected samples
FinishFetch(load_times, r) ==
    IF load_times # <<>>
    THEN LoadTimeCalculate(
             [r EXCEPT !.samples =
                 [i \in 1..Len(load_times) |-> Round3(load_times[i])]])
    ELSE r

\* Leaving _fetch_with_measurements
EndFetch(t, l, r) ==
    /\ intel' = [intel EXCEPT ![t] = FinishFetch(l.load_times, r)]
    /\ loc' = [loc EXCEPT ![t] = [l EXCEPT !.phases = Append(@, "fetch")]]
    /\ pc' = [pc EXCEPT ![t] = "parse"]
    /\ UNCHANGED sem

\* One pass of "for url in urls_to_try": the first GET of a scheme
FirstGet(t) ==
    /\ pc[t] = "fetch"
    /\ \E out \in net.first :
        LET url == UrlsToTry(cfg.domains[t])[loc[t].url_index]
            last == loc[t].url_index = Len(UrlsToTry(cfg.domains[t]))
            working_url == FinalUrl(url, out.redirect)
            rounds == Max2(cfg.measurement_rounds - 1, 0)
            seen == [loc[t] EXCEPT !.attempts = Append(@,
                        [ url |-> url,
                          status |-> IF out.kind = "response"
                                     THEN out.status ELSE 0,
                          exc |-> out.exc,
                          ended_at |-> IF out.kind = "response"
                                       THEN FinalUrl(url, out.redirect)
                                       ELSE NoUrl ])]
        IN  /\ reqs' = [reqs EXCEPT ![t] = Append(@, url)]
            /\ IF out.kind = "response" /\ out.status = 200
               THEN LET r == [intel[t] EXCEPT
                                 !.status_code = out.status,
                                 !.final_url = working_url,
                                 !.has_ssl = StartsWithHttps(working_url),
                                 !.html_size_bytes = out.doc.size]
                        l == [seen EXCEPT
                                 !.working_url = working_url,
                                 !.html_content = out.doc,
                                 !.response_headers = out.headers,
                                 !.load_times = <<out.elapsed>>,
                                 !.rounds_left = rounds]
                    IN  IF rounds = 0
                        THEN EndFetch(t, l, r)
                        ELSE /\ intel' = [intel EXCEPT ![t] = r]
                             /\ loc' = [loc EXCEPT ![t] = l]
                             /\ pc' = [pc EXCEPT ![t] = "repeat"]
                             /\ UNCHANGED sem
               ELSE IF out.kind = "raise" /\ ~Caught(FetchHandlers, out.exc)
               THEN /\ Propagate(t)
                    /\ loc' = [loc EXCEPT ![t] = seen]
                    /\ UNCHANGED intel
               ELSE LET r == IF out.kind = "response"
                             THEN [intel[t] EXCEPT
                                      !.status_code = out.status,
                                      !.final_url = working_url]
                             ELSE OnFetchException(out, intel[t])
                        l == [seen EXCEPT !.url_index = @ + 1]
                    IN  IF last
                        THEN EndFetch(t, l, r)
                        ELSE /\ intel' = [intel EXCEPT ![t] = r]
                             /\ loc' = [loc EXCEPT ![t] = l]
                             /\ UNCHANGED <<pc, sem>>
    /\ UNCHANGED <<cfg, net, opc, batchStart, results, probe, psem>>

\* Faulty variant: the repeat measurements request the URL tried, not the
\* URL the redirects ended at
RepeatUrlAsTried(t) == UrlsToTry(cfg.domains[t])[loc[t].url_index]

\* The URL of a repeat measurement: client.get(working_url, ...)
RepeatUrl(t) == loc[t].working_url

\* One pass of "for _ in range(self.measurement_rounds - 1)"
RepeatGet(t) ==
    /\ pc[t] = "repeat"
    /\ \E out \in net.repeat :
        LET ok == out.kind = "response"
            l == [loc[t] EXCEPT
                     !.load_times = IF ok THEN Append(@, out.elapsed) ELSE @,
                     !.repeats_ok = IF ok THEN @ + 1 ELSE @,
                     !.repeats_raised = IF ok THEN @ ELSE @ + 1,
                     !.rounds_left = @ - 1]
        IN  /\ reqs' = [reqs EXCEPT ![t] = Append(@, RepeatUrl(t))]
            /\ IF ~ok /\ ~Caught(RepeatHandlers, out.exc)
               THEN /\ Propagate(t)
                    /\ loc' = [loc EXCEPT ![t] = l]
                    /\ UNCHANGED intel
               ELSE IF l.rounds_left = 0
               THEN EndFetch(t, l, intel[t])
               ELSE /\ loc' = [loc EXCEPT ![t] = l]
                    /\ UNCHANGED <<intel, pc, sem>>
    /\ UNCHANGED <<cfg, net, opc, batchStart, results, probe, psem>>

\* if html_content: self.html_analyzer.analyze(html_content, intel)
\* An extractor that fails raises an Exception (AttributeError, TypeError..)
ParseHtml(t) ==
    /\ pc[t] = "parse"
    /\ IF loc[t].html_content.body
       THEN \E stages \in net.stages :
              /\ intel' = [intel EXCEPT ![t] =
                              HTMLAnalyze(loc[t].html_content, stages, @)]
              /\ loc' = [loc EXCEPT ![t].parse_stages = stages,
                                    ![t].phases = Append(@, "parse")]
              /\ IF stages < ExtractorCount
                    /\ ~Caught(AnalyzeHandlers, "Exception")
                 THEN Propagate(t)
                 ELSE /\ pc' = [pc EXCEPT ![t] = "headers"]
                      /\ UNCHANGED sem
       ELSE /\ pc' = [pc EXCEPT ![t] = "headers"]
            /\ UNCHANGED <<intel, loc, sem>>
    /\ UNCHANGED <<cfg, net, opc, batchStart, results, reqs, probe, psem>>

\* if response_headers: self._parse_security_headers(response_headers, intel)
ParseHeaders(t) ==
    /\ pc[t] = "headers"
    /\ IF loc[t].response_headers # {}
       THEN /\ intel' = [intel EXCEPT ![t] =
                            ParseSecurityHeaders(loc[t].response_headers, @)]
            /\ loc' = [loc EXCEPT ![t].phases = Append(@, "headers")]
       ELSE UNCHANGED <<intel, loc>>
    /\ pc' = [pc EXCEPT ![t] = "pages"]
    /\ UNCHANGED <<cfg, net, opc, batchStart, results, sem, reqs, probe, psem>>

---------------------------------------------------------------------------
(* PageChecker *)

MainPaths(t) == DOMAIN probe[t] \cap CatalogPaths

BlogPaths(t) == DOMAIN probe[t] \cap BlogPathSet

\* check_pages: base URL, then gather(_check_main_pages, _check_blog), each
\* of which gathers one _check_page_exists task per path
StartProbes(t) ==
    LET base_url == IF intel[t].final_url # NoUrl
                    THEN ExtractBaseUrl(intel[t].final_url)
                    ELSE Url("https", cfg.domains[t], "")
        blog == IF intel[t].has_blog THEN {} ELSE cfg.blog_paths
    IN  /\ probe' = [probe EXCEPT ![t] =
                        [p \in cfg.pages \cup blog |->
                            NewProbe([base_url EXCEPT !.path = p])]]
        /\ loc' = [loc EXCEPT ![t].before_probes = Flags(intel[t]),
                              ![t].blog_done = intel[t].has_blog,
                              ![t].phases = Append(@, "probe")]
        /\ pc' = [pc EXCEPT ![t] = "probing"]

\* Faulty variant: the pages are probed whenever a response gave the record
\* a final URL, 200 or not
CheckPagesIfFinalUrl(t) ==
    /\ pc[t] = "pages"
    /\ IF intel[t].final_url # NoUrl
       THEN StartProbes(t)
       ELSE /\ pc' = [pc EXCEPT ![t] = "aggregate"]
            /\ UNCHANGED <<probe, loc>>
    /\ UNCHANGED <<cfg, net, opc, batchStart, results, sem, intel, reqs, psem>>

\* if working_url: await self.page_checker.check_pages(domain, client, intel)
CheckPages(t) ==
    /\ pc[t] = "pages"
    /\ IF loc[t].working_url # NoUrl
       THEN StartProbes(t)
       ELSE /\ pc' = [pc EXCEPT ![t] = "aggregate"]
            /\ UNCHANGED <<probe, loc>>
    /\ UNCHANGED <<cfg, net, opc, batchStart, results, sem, intel, reqs, psem>>

\* Faulty variant: the probe takes its permit from the analysis slots
ProbeAcquireAnalysisSlot(t, p) ==
    /\ probe[t][p].st = "wait"
    /\ sem > 0
    /\ sem' = sem - 1
    /\ probe' = [probe EXCEPT ![t][p].st = "head", ![t][p].heads = @ + 1]
    /\ UNCHANGED <<cfg, net, opc, batchStart, results, pc, psem, intel, loc, reqs>>

\* Faulty variant: every domain has its own allowance of max_concurrent
\* probe requests
ProbeAcquirePerDomain(t, p) ==
    /\ probe[t][p].st = "wait"
    /\ Cardinality({q \in DOMAIN probe[t] : probe[t][q].st \in {"head", "get"}})
           < cfg.probe_max_concurrent
    /\ psem' = psem - 1
    /\ probe' = [probe EXCEPT ![t][p].st = "head", ![t][p].heads = @ + 1]
    /\ UNCHANGED <<cfg, net, opc, batchStart, results, pc, sem, intel, loc, reqs>>

\* _check_page_exists: "async with self.semaphore" entry and the HEAD request
ProbeAcquire(t, p) ==
    /\ probe[t][p].st = "wait"
    /\ psem > 0
    /\ psem' = psem - 1
    /\ probe' = [probe EXCEPT ![t][p].st = "head", ![t][p].heads = @ + 1]
    /\ UNCHANGED <<cfg, net, opc, batchStart, results, pc, sem, intel, loc, reqs>>

\* Faulty variant: a GET follows every HEAD that was not answered 200
NeedsGetUnless200(status) == status # 200

\* if response.status_code == 405: the HEAD is followed by a GET
NeedsGet(status) == status = 405

\* _check_page_exists ends after its last request: the value returned, or
\* the exception that gather(return_exceptions=True) puts in its place
ProbeReturn(pr, out) ==
    [pr EXCEPT !.st = "done",
               !.last_status = IF out.kind = "response" THEN out.status ELSE @,
               !.raised = (out.kind = "raise"),
               !.threw = (out.kind = "raise" /\ ~Caught(ProbeHandlers, out.exc)),
               !.exists = (out.kind = "response" /\ out.status = 200)]

\* The HEAD request completes: GET on 405, otherwise return and release
ProbeHead(t, p) ==
    /\ probe[t][p].st = "head"
    /\ \E out \in net.head :
        LET pr == [probe[t][p] EXCEPT
                      !.head_status = IF out.kind = "response"
                                      THEN out.status ELSE 0]
        IN  IF out.kind = "response" /\ NeedsGet(out.status)
            THEN /\ probe' = [probe EXCEPT ![t][p] =
                                 [pr EXCEPT !.st = "get", !.gets = @ + 1,
                                            !.last_status = out.status]]
                 /\ UNCHANGED psem
            ELSE /\ probe' = [probe EXCEPT ![t][p] = ProbeReturn(pr, out)]
                 /\ psem' = psem + 1
    /\ UNCHANGED <<cfg, net, opc, batchStart, results, pc, sem, intel, loc, reqs>>

\* The GET request completes: return and release
ProbeGet(t, p) ==
    /\ probe[t][p].st = "get"
    /\ \E out \in net.get :
          probe' = [probe EXCEPT ![t][p] = ProbeReturn(@, out)]
    /\ psem' = psem + 1
    /\ UNCHANGED <<cfg, net, opc, batchStart, results, pc, sem, intel, loc, reqs>>

\* Faulty variant: every probed path assigns its result to the attribute
RECURSIVE ApplyMainPagesAssign(_, _, _)
ApplyMainPagesAssign(i, pr, r) ==
    IF i > Len(PAGES_TO_CHECK) THEN r
    ELSE LET path == PAGES_TO_CHECK[i][1]
             attr_name == PAGES_TO_CHECK[i][3]
             r1 == IF path \in DOMAIN pr
                   THEN [r EXCEPT ![attr_name] = pr[path].exists]
                   ELSE r
         IN  ApplyMainPagesAssign(i + 1, pr, r1)

\* The loop "for path, exists in zip(paths, results)" of _check_main_pages
RECURSIVE ApplyMainPages(_, _, _)
ApplyMainPages(i, pr, r) ==
    IF i > Len(PAGES_TO_CHECK) THEN r
    ELSE LET path == PAGES_TO_CHECK[i][1]
             attr_name == PAGES_TO_CHECK[i][3]
             r1 == IF path \in DOMAIN pr /\ pr[path].exists /\ ~r[attr_name]
                   THEN [r EXCEPT ![attr_name] = TRUE]
                   ELSE r
         IN  ApplyMainPages(i + 1, pr, r1)

\* The loop "for exists in results" of _check_blog
ApplyBlog(paths, pr, r) ==
    IF \E p \in paths : pr[p].exists THEN [r EXCEPT !.has_blog = TRUE] ELSE r

\* check_pages returns when both of its coroutines have
Joined(t, l) ==
    pc' = [pc EXCEPT ![t] = IF l.main_done /\ l.blog_done
                            THEN "aggregate" ELSE @]

\* Faulty variant: the results of the main-page probes of one domain are
\* applied to the records of all domains
MainPagesDoneShared(t) ==
    /\ pc[t] = "probing"
    /\ ~loc[t].main_done
    /\ \A p \in MainPaths(t) : probe[t][p].st = "done"
    /\ intel' = [u \in Tasks |-> ApplyMainPages(1, probe[t], intel[u])]
    /\ loc' = [loc EXCEPT ![t].main_done = TRUE]
    /\ Joined(t, loc'[t])
    /\ UNCHANGED <<cfg, net, opc, batchStart, results, sem, reqs, probe, psem>>

\* _check_main_pages: its gather is complete
MainPagesDone(t) ==
    /\ pc[t] = "probing"
    /\ ~loc[t].main_done
    /\ \A p \in MainPaths(t) : probe[t][p].st = "done"
    /\ intel' = [intel EXCEPT ![t] = ApplyMainPages(1, probe[t], @)]
    /\ loc' = [loc EXCEPT ![t].main_done = TRUE]
    /\ Joined(t, loc'[t])
    /\ UNCHANGED <<cfg, net, opc, batchStart, results, sem, reqs, probe, psem>>

\* _check_blog: its gather is complete
BlogDone(t) ==
    /\ pc[t] = "probing"
    /\ ~loc[t].blog_done
    /\ \A p \in BlogPaths(t) : probe[t][p].st = "done"
    /\ intel' = [intel EXCEPT ![t] = ApplyBlog(BlogPaths(t), probe[t], @)]
    /\ loc' = [loc EXCEPT ![t].blog_done = TRUE]
    /\ Joined(t, loc'[t])
    /\ UNCHANGED <<cfg, net, opc, batchStart, results, sem, reqs, probe, psem>>

---------------------------------------------------------------------------
(* analyze_website: the end of the "async with" block *)

\* Faulty variant: the scores are calculated only for a fetched page
AggregateIfFetched(t) ==
    /\ pc[t] = "aggregate"
    /\ IF loc[t].working_url # NoUrl
       THEN /\ intel' = [intel EXCEPT ![t] = CalculateOverallScores(@)]
            /\ loc' = [loc EXCEPT ![t].aggregations = @ + 1,
                                  ![t].phases = Append(@, "aggregate")]
       ELSE UNCHANGED <<intel, loc>>
    /\ sem' = sem + 1
    /\ pc' = [pc EXCEPT ![t] = "returned"]
    /\ UNCHANGED <<cfg, net, opc, batchStart, results, reqs, probe, psem>>

\* Faulty variant: the record is returned without the slot being released
AggregateKeepsSlot(t) ==
    /\ pc[t] = "aggregate"
    /\ intel' = [intel EXCEPT ![t] = CalculateOverallScores(@)]
    /\ loc' = [loc EXCEPT ![t].aggregations = @ + 1,
                          ![t].phases = Append(@, "aggregate")]
    /\ pc' = [pc EXCEPT ![t] = "returned"]
    /\ UNCHANGED <<cfg, net, opc, batchStart, results, sem, reqs, probe, psem>>

\* intel.calculate_overall_scores(), semaphore release, return intel
Aggregate(t) ==
    /\ pc[t] = "aggregate"
    /\ intel' = [intel EXCEPT ![t] = CalculateOverallScores(@)]
    /\ loc' = [loc EXCEPT ![t].aggregations = @ + 1,
                          ![t].phases = Append(@, "aggregate")]
    /\ sem' = sem + 1
    /\ pc' = [pc EXCEPT ![t] = "returned"]
    /\ UNCHANGED <<cfg, net, opc, batchStart, results, reqs, probe, psem>>

\* An exception no handler of analyze_website catches, raised by one of the
\* synchronous steps between the awaits
CrashPoints == {"parse", "headers", "pages", "aggregate"}

TaskCrash(t) ==
    /\ pc[t] \in CrashPoints
    /\ Propagate(t)
    /\ UNCHANGED <<cfg, net, opc, batchStart, results, intel, loc, reqs,
                   probe, psem>>

---------------------------------------------------------------------------
(* Next-state relations *)

Step ==
    \/ StartBatch
    \/ CollectBatch
    \/ \E t \in Tasks : Acquire(t)
    \/ \E t \in Tasks : FirstGet(t)
    \/ \E t \in Tasks : RepeatGet(t)
    \/ \E t \in Tasks : ParseHtml(t)
    \/ \E t \in Tasks : ParseHeaders(t)
    \/ \E t \in Tasks : CheckPages(t)
    \/ \E t \in Tasks : \E p \in DOMAIN probe[t] : ProbeAcquire(t, p)
    \/ \E t \in Tasks : \E p \in DOMAIN probe[t] : ProbeHead(t, p)
    \/ \E t \in Tasks : \E p \in DOMAIN probe[t] : ProbeGet(t, p)
    \/ \E t \in Tasks : MainPagesDone(t)
    \/ \E t \in Tasks : BlogDone(t)
    \/ \E t \in Tasks : Aggregate(t)

Next == Step \/ \E t \in Tasks : TaskCrash(t)

---------------------------------------------------------------------------
(* Configurations and environments *)

PlainHeaders == {"content-type"}

AllHeaders == SecurityHeaderNames \cup PlainHeaders

Domains(n) == [i \in 1..n |-> i]

\* Spec: analyze_batch over up to MaxDomains domains; a small network
BatchCfg(n) ==
    [ domains |-> Domains(n), max_concurrent |-> MaxConcurrent,
      measurement_rounds |-> 2, probe_max_concurrent |-> MaxProbeConcurrent,
      pages |-> SubCatalog({"has_robots_txt"}, 1), blog_paths |-> {} ]

BatchNet ==
    [ first  |-> { Response(200, "same", BareDoc, PlainHeaders, 4004) },
      repeat |-> { Response(200, "same", BareDoc, PlainHeaders, 4004) },
      stages |-> { ExtractorCount },
      head   |-> { Response(405, "same", EmptyBody, PlainHeaders, 0),
                   Response(404, "same", EmptyBody, PlainHeaders, 0) },
      get    |-> { Response(200, "same", EmptyBody, PlainHeaders, 0) } ]

Init == \E n \in 0..MaxDomains : InitWith(BatchCfg(n), BatchNet)

Spec == Init /\ [][Next]_vars

\* The event loop runs a coroutine that can go on
SpecFair == Spec /\ WF_vars(Step)


\* SpecSite: one domain, every kind of outcome of every sub-step
SiteCfg ==
    [ domains |-> Domains(1), max_concurrent |-> MaxConcurrent,
      measurement_rounds |-> DefaultMeasurementRounds,
      probe_max_concurrent |-> MaxProbeConcurrent,
      pages |-> SubCatalog({"has_pricing_page"}, 1),
      blog_paths |-> {"/blog"} ]

SiteNet ==
    [ first  |-> { Response(200, "same", RichDoc, AllHeaders, 9004),
                   Response(200, "www", BareDoc, PlainHeaders, 31007),
                   Response(200, "downgrade", PricingDoc, {}, 24001),
                   Response(200, "upgrade", EmptyBody, PlainHeaders, 52008),
                   Response(404, "same", BareDoc, PlainHeaders, 3002),
                   Response(503, "www", EmptyBody, {}, 3002) }
                 \cup { Raise(e) : e \in ExceptionKinds },
      repeat |-> { Response(200, "same", BareDoc, PlainHeaders, 11003),
                   Response(500, "same", EmptyBody, {}, 40009),
                   Raise("TimeoutException") },
      stages |-> { 0, 3, ExtractorCount },
      head   |-> { Response(200, "same", EmptyBody, PlainHeaders, 0),
                   Response(404, "same", EmptyBody, PlainHeaders, 0),
                   Response(405, "same", EmptyBody, PlainHeaders, 0),
                   Raise("TimeoutException") },
      get    |-> { Response(200, "same", BareDoc, PlainHeaders, 0),
                   Response(500, "same", EmptyBody, PlainHeaders, 0),
                   Raise("ConnectError") } ]

InitSite == InitWith(SiteCfg, SiteNet)

SpecSite == InitSite /\ [][Step]_vars

\* The event loop runs every coroutine that can run: a call of
\* analyze_website that has a next step takes it
SpecSiteFair == SpecSite /\ WF_vars(Step)

\* SpecProbe: one domain whose fetch succeeds, two candidate paths for each
\* of two attributes (one of which HTML analysis may have set), every kind
\* of outcome of the probe requests
ProbeCfg ==
    [ domains |-> Domains(1), max_concurrent |-> MaxConcurrent,
      measurement_rounds |-> 2,
      probe_max_concurrent |-> MaxProbeConcurrent,
      pages |-> SubCatalog({"has_contact_page", "has_pricing_page"}, 2),
      blog_paths |-> {} ]

ProbeNet ==
    [ first  |-> { Response(200, "same", PricingDoc, PlainHeaders, 9004),
                   Response(200, "www", BareDoc, PlainHeaders, 9004) },
      repeat |-> { Response(200, "same", BareDoc, PlainHeaders, 11003) },
      stages |-> { ExtractorCount },
      head   |-> { Response(200, "same", EmptyBody, PlainHeaders, 0),
                   Response(404, "same", EmptyBody, PlainHeaders, 0),
                   Response(405, "same", EmptyBody, PlainHeaders, 0),
                   Raise("TimeoutException"), Raise("ConnectError"),
                   Raise("TooManyRedirects"), Raise("Exception") },
      get    |-> { Response(200, "same", BareDoc, PlainHeaders, 0),
                   Response(404, "same", EmptyBody, PlainHeaders, 0),
                   Response(405, "same", EmptyBody, PlainHeaders, 0),
                   Raise("TimeoutException") } ]

InitProbe == InitWith(ProbeCfg, ProbeNet)

SpecProbe == InitProbe /\ [][Step]_vars

---------------------------------------------------------------------------
(* calculate_overall_scores as a function of the populated fields *)

\* Populated performance fields, <<trimmed_mean, median, html_size_bytes,
\* ttfb>> with the times in ms, on both sides of the thresholds of
\* calculate_grade and of _calculate_buyer_priority
PerformanceInputs ==
    { [ trimmed_mean |-> Rat(x[1], 1), median |-> Rat(x[2], 1),
        html_size_bytes |-> x[3], ttfb |-> x[4] ] :
      x \in { <<0, 0, 0, 0>>, <<0, 2500, 0, 0>>, <<1500, 1500, 250000, 0>>,
              <<2500, 2500, 0, 0>>, <<2500, 2500, 250000, 700>>,
              <<3500, 3500, 0, 0>>, <<3500, 3500, 250000, 0>>,
              <<6000, 6000, 600000, 1500>> } }

\* Populated SEO fields: the flags, the heading counts and
\* <<image_count, images_without_alt>>
SeoInputs ==
    { [ has_meta_description |-> b, has_og_tags |-> b,
        has_twitter_cards |-> b, has_structured_data |-> b,
        has_sitemap |-> b, has_robots_txt |-> b, canonical_url |-> b,
        h1_count |-> h, h2_count |-> h,
        image_count |-> i[1], images_without_alt |-> i[2] ] :
      b \in BOOLEAN, h \in 0..2, i \in { <<0, 0>>, <<5, 4>>, <<5, 0>> } }

\* Populated security fields
SecurityInputs ==
    { [ has_ssl |-> s, has_hsts |-> h >= 1, has_csp |-> h >= 1,
        has_x_frame_options |-> h >= 1,
        has_x_content_type_options |-> h >= 2,
        has_x_xss_protection |-> h >= 2 ] :
      s \in BOOLEAN, h \in 0..2 }

\* Populated accessibility fields: the defaults, all set, none set
AccessibilityInputs ==
    { [ has_lang_attribute |-> FALSE, has_skip_link |-> FALSE,
        forms_have_labels |-> TRUE, images_have_alt |-> TRUE,
        has_aria_landmarks |-> FALSE ] }
    \cup
    { [ has_lang_attribute |-> b, has_skip_link |-> b,
        forms_have_labels |-> b, images_have_alt |-> b,
        has_aria_landmarks |-> b ] : b \in BOOLEAN }

\* Populated business fields: k = 0 none, 1 a contact form only, 2 the
\* signals worth 70 points with an old copyright year, 3 all of them
BusinessInputs ==
    { [ has_contact_page |-> k >= 2, has_contact_form |-> k \in {1, 3},
        has_phone_number |-> k >= 2, has_email |-> k >= 2,
        has_physical_address |-> k >= 2, has_social_links |-> k >= 3,
        social_platforms |-> IF k >= 3 THEN 3 ELSE k,
        has_about_page |-> k >= 2, has_privacy_policy |-> k >= 2,
        has_terms_of_service |-> k >= 3,
        copyright_year |-> CASE k = 2 -> 2020 [] k = 3 -> 2024
                             [] OTHER -> 0 ] :
      k \in 0..3 }

\* Records whose input fields are populated and whose scores are not yet
\* calculated
ScoreInputs ==
    { p @@ s @@ c @@ a @@ b @@ [ is_outdated_cms |-> o ] @@ NewIntel(1) :
      p \in PerformanceInputs, s \in SeoInputs, c \in SecurityInputs,
      a \in AccessibilityInputs, b \in BusinessInputs, o \in BOOLEAN }

\* A caller calls intel.calculate_overall_scores() on a returned record
Recalculate(t) ==
    /\ pc[t] = "returned"
    /\ loc[t].aggregations = 1
    /\ intel' = [intel EXCEPT ![t] = CalculateOverallScores(@)]
    /\ loc' = [loc EXCEPT ![t].aggregations = @ + 1]
    /\ UNCHANGED <<cfg, net, opc, batchStart, results, pc, sem, reqs,
                   probe, psem>>

\* SpecScore: analyze_website of one domain at the call of
\* calculate_overall_scores, with any populated record
ScoreCfg ==
    [ domains |-> Domains(1), max_concurrent |-> MaxConcurrent,
      measurement_rounds |-> DefaultMeasurementRounds,
      probe_max_concurrent |-> MaxProbeConcurrent,
      pages |-> {}, blog_paths |-> {} ]

InitScore ==
    /\ cfg = ScoreCfg
    /\ net = BatchNet
    /\ opc = "gather"
    /\ batchStart = 1
    /\ results = <<>>
    /\ pc = <<"aggregate">>
    /\ sem = MaxConcurrent - 1
    /\ intel \in { <<r>> : r \in ScoreInputs }
    /\ loc = <<NewLoc>>
    /\ reqs = <<<<>>>>
    /\ probe = <<NoProbes>>
    /\ psem = MaxProbeConcurrent

ScoreStep ==
    \/ \E t \in Tasks : Aggregate(t)
    \/ \E t \in Tasks : Recalculate(t)

SpecScore == InitScore /\ [][ScoreStep]_vars


\* SpecPools: two domains analysed by one scraper whose page checker has
\* fewer permits than the two domains have candidate paths, with one
\* analysis slot or with one for each domain
PoolsCfg(c) ==
    [ domains |-> Domains(2), max_concurrent |-> c,
      measurement_rounds |-> 2, probe_max_concurrent |-> MaxProbeConcurrent,
      pages |-> SubCatalog({"has_contact_page"}, 3),
      blog_paths |-> {} ]

\* Every fetch succeeds; every HEAD is answered 405 and its GET 200
PoolsNet ==
    [ BatchNet EXCEPT !.head = { Response(405, "same", EmptyBody, PlainHeaders, 0) } ]

InitPools ==
    \E c \in MaxConcurrent .. MaxConcurrent + 1 : InitWith(PoolsCfg(c), PoolsNet)

SpecPools == InitPools /\ [][Step]_vars

\* SpecPoolsFair: as SpecPools, where moreover a task may raise; every HTTP
\* request completes and the event loop runs a coroutine that can go on
SpecPoolsFair == InitPools /\ [][Next]_vars /\ WF_vars(Step)


\* SpecPair: two domains analysed at the same time by one scraper, each
\* answered in its own way by the network
PairCfg ==
    [ domains |-> Domains(2), max_concurrent |-> MaxConcurrent + 1,
      measurement_rounds |-> 2, probe_max_concurrent |-> MaxProbeConcurrent,
      pages |-> SubCatalog({"has_about_page"}, 1),
      blog_paths |-> {} ]

PairNet ==
    [ first  |-> { Response(200, "same", PricingDoc, AllHeaders, 9004),
                   Response(404, "same", BareDoc, PlainHeaders, 3002),
                   Raise("ConnectError") },
      repeat |-> { Response(200, "same", BareDoc, PlainHeaders, 11003),
                   Raise("TimeoutException") },
      stages |-> { ExtractorCount },
      head   |-> { Response(404, "same", EmptyBody, PlainHeaders, 0),
                   Response(405, "same", EmptyBody, PlainHeaders, 0) },
      get    |-> { Response(200, "same", BareDoc, PlainHeaders, 0) } ]

InitPair == InitWith(PairCfg, PairNet)

SpecPair == InitPair /\ [][Step]_vars

\* SpecLeak: analyze_batch over three domains, two sub-batches when there
\* is one slot, where a fetch may fail on both schemes, a probe request may
\* time out and a task may raise
LeakCfg ==
    [ domains |-> Domains(3), max_concurrent |-> MaxConcurrent,
      measurement_rounds |-> 2, probe_max_concurrent |-> MaxProbeConcurrent,
      pages |-> SubCatalog({"has_sitemap"}, 1), blog_paths |-> {} ]

LeakNet ==
    [ first  |-> { Response(200, "same", BareDoc, PlainHeaders, 4004),
                   Raise("ConnectError") },
      repeat |-> { Response(200, "same", BareDoc, PlainHeaders, 4004) },
      stages |-> { ExtractorCount },
      head   |-> { Response(405, "same", EmptyBody, PlainHeaders, 0),
                   Raise("TimeoutException") },
      get    |-> { Response(200, "same", EmptyBody, PlainHeaders, 0) } ]

InitLeak == InitWith(LeakCfg, LeakNet)

SpecLeak == InitLeak /\ [][Next]_vars


----------------------------------------------------------------------------
(* LoadTimeMetrics.calculate as a function of the samples *)

\* Load times in ms: none, below and above one second, between two and three
SampleValues == {0, 900, 1100, 2500}

SampleSeqs == UNION { [1..n -> SampleValues] : n \in 0..MaxSamples }

\* Sequences of LongSamples short load times: a of 300 ms, then b of 0 ms,
\* then 100 ms
LongSampleSeqs ==
    { [i \in 1..LongSamples |->
          IF i <= a THEN 300 ELSE IF i <= a + b THEN 0 ELSE 100] :
      a \in 0..2, b \in 0..3 }

\* intel.performance.load_time_metrics.calculate()
Calculate(t) ==
    /\ pc[t] = "calculate"
    /\ LET out == LoadTimeOutcome(intel[t])
       IN  /\ intel' = [intel EXCEPT ![t] = out.value]
           /\ pc' = [pc EXCEPT ![t] = IF out.raised THEN "raised"
                                      ELSE "calculated"]
    /\ UNCHANGED <<cfg, net, opc, batchStart, results, sem, loc, reqs, probe,
                   psem>>

\* SpecLoad: a fresh record given every sequence of up to MaxSamples samples
\* or a sequence long enough for more than one sample to be trimmed at
\* each end
InitLoad ==
    /\ cfg = ScoreCfg
    /\ net = BatchNet
    /\ opc = "gather"
    /\ batchStart = 1
    /\ results = <<>>
    /\ pc = <<"calculate">>
    /\ sem = MaxConcurrent - 1
    /\ intel \in { <<[NewIntel(1) EXCEPT !.samples = s]>> :
                    s \in SampleSeqs \cup LongSampleSeqs }
    /\ loc = <<NewLoc>>
    /\ reqs = << <<>> >>
    /\ probe = <<NoProbes>>
    /\ psem = MaxProbeConcurrent

LoadStep == \E t \in Tasks : Calculate(t)

SpecLoad == InitLoad /\ [][LoadStep]_vars

----------------------------------------------------------------------------
(* CMSDetector.is_outdated as a function of the CMS and the version *)

\* The table after an update: WordPress 6.6, Drupal 11
UpdatedVersions ==
    [ wordpress |-> <<6, 6>>, joomla |-> <<5, 0>>, drupal |-> <<11>> ]

\* The CMS names detect returns (prestashop has no table entry)
CmsNames == { "wordpress", "joomla", "drupal", "prestashop", None }

\* Components of a version string: integers around the current majors and
\* -1 for a component that is no integer
VersionParts == { -1, 0, 3, 4, 5, 9, 10 }

VersionSeqs == UNION { [1..n -> VersionParts] : n \in 0..MaxVersionParts }

\* Lines 92-93 of HTMLAnalyzer.analyze, after cms_detected and cms_version
\* were assigned
CheckOutdated(t) ==
    /\ pc[t] = "detect"
    /\ intel' = [intel EXCEPT ![t].is_outdated_cms =
                    IF intel[t].cms_detected # None
                    THEN IsOutdatedIn(cfg.current_versions,
                                      intel[t].cms_detected, intel[t].cms_version)
                    ELSE @]
    /\ pc' = [pc EXCEPT ![t] = "detected"]
    /\ UNCHANGED <<cfg, net, opc, batchStart, results, sem, loc, reqs, probe,
                   psem>>

\* SpecCms: a record with any detected CMS and version, under the table of
\* the source and under an updated one
InitCms ==
    /\ cfg \in { [current_versions |-> v] @@ ScoreCfg :
                  v \in {CURRENT_VERSIONS, UpdatedVersions} }
    /\ net = BatchNet
    /\ opc = "gather"
    /\ batchStart = 1
    /\ results = <<>>
    /\ pc = <<"detect">>
    /\ sem = MaxConcurrent - 1
    /\ intel \in { <<[NewIntel(1) EXCEPT !.cms_detected = c, !.cms_version = v]>> :
                    c \in CmsNames, v \in VersionSeqs }
    /\ loc = <<NewLoc>>
    /\ reqs = << <<>> >>
    /\ probe = <<NoProbes>>
    /\ psem = MaxProbeConcurrent

CmsStep == \E t \in Tasks : CheckOutdated(t)

SpecCms == InitCms /\ [][CmsStep]_vars

---------------------------------------------------------------------------
(* Properties *)

\* The positions of analyze_website inside "async with self.semaphore"
SectionPoints ==
    {"fetch", "repeat", "parse", "headers", "pages", "probing", "aggregate"}

InSection == {t \in Tasks : pc[t] \in SectionPoints}

\* C1: during analyze_batch, the number of domains that are inside the
\* slot-holding section of analyze_website at the same time never exceeds
\* max_concurrent.
C1_SectionBound == Cardinality(InSection) <= cfg.max_concurrent

\* C1 witness: the section is full while another domain of the sub-batch
\* waits for a slot
C1_SectionFull ==
    /\ Cardinality(InSection) = cfg.max_concurrent
    /\ \E t \in Tasks : pc[t] = "acquire"

\* C2: analyze_website returns exactly one WebsiteIntelligence and never
\* propagates an exception, for every combination of outcomes of its
\* sub-steps: timeout, connection error, redirect loop, non-200 response or
\* any other exception on either scheme, raising repeat measurements, an
\* exception in HTML parsing, failing or raising probes.  The call never
\* ends by an exception, it does return, and what it returned is the one
\* record of its domain, which the batch of one domain hands back.
C2_AlwaysOneRecord ==
    /\ [](\A t \in Tasks :
            /\ pc[t] # "raised"
            /\ pc[t] = "returned" => intel[t].domain = cfg.domains[t]
            /\ opc = "done" => results = <<intel[t]>>)
    /\ <>(\A t \in Tasks : pc[t] = "returned")

\* C2 witness: a call that returned after https raised, a repeat raised,
\* an extractor raised and a probe request raised
C2_ReturnedThroughFailures ==
    \E t \in Tasks :
        /\ pc[t] = "returned"
        /\ Len(loc[t].attempts) = 2
        /\ loc[t].attempts[1].status = 0
        /\ loc[t].repeats_raised >= 1
        /\ loc[t].parse_stages \in 0..(ExtractorCount - 1)
        /\ \E p \in DOMAIN probe[t] : probe[t][p].raised

Finished(t) == pc[t] \in {"returned", "raised"}

RaisedTasks == {t \in Tasks : pc[t] = "raised"}

\* The positions of the result list that hold the record of task t
RecordsOf(t) == {i \in 1..Len(results) : results[i].domain = cfg.domains[t]}

\* C3: if a domain's analysis task raises an unexpected exception,
\* analyze_batch still returns normally: the gather of a finished sub-batch
\* is collected whatever its tasks ended with, and when analyze_batch has
\* returned every task of every sub-batch has finished, the result holds
\* exactly one record for each domain whose task did not raise and none for
\* a domain whose task raised, so that its length is the number of input
\* domains minus the number of raising tasks.
C3_RaisingTasksDropped ==
    /\ (opc = "gather" /\ \A t \in Batch(batchStart) : Finished(t))
          => ENABLED CollectBatch
    /\ opc = "done" =>
          /\ \A t \in Tasks : Finished(t)
          /\ \A t \in Tasks \ RaisedTasks :
                /\ Cardinality(RecordsOf(t)) = 1
                /\ \A i \in RecordsOf(t) : results[i] = intel[t]
          /\ \A t \in RaisedTasks : RecordsOf(t) = {}
          /\ Len(results) = Len(cfg.domains) - Cardinality(RaisedTasks)

\* C3 witness: analyze_batch returned after a task of the first sub-batch
\* raised, its sibling returned and a later sub-batch completed
C3_ReturnedDespiteRaise ==
    /\ opc = "done"
    /\ \E t, u \in Batch(1) : pc[t] = "raised" /\ pc[u] = "returned"
    /\ \E v \in Tasks \ Batch(1) : pc[v] = "returned"

\* The statuses of the first GETs of task t, in the order of the schemes
\* (0: the request raised)
AttemptStatuses(t) ==
    [i \in 1..Len(loc[t].attempts) |-> loc[t].attempts[i].status]

Got200(t) == \E i \in 1..Len(loc[t].attempts) : loc[t].attempts[i].status = 200

\* C4: whenever neither the https attempt nor the http attempt returns
\* HTTP 200, including when both attempts return a response with a non-200
\* status, the error field of the final record is set to a failure tag (it
\* is not None).
C4_FailedFetchTagged ==
    \A t \in Tasks :
        (pc[t] = "returned" /\ ~Got200(t)) => intel[t].error # None

\* C5: a record whose fetch succeeded carries no failure tag: if either
\* scheme returned HTTP 200, including the http fallback after the https
\* attempt failed, the final record has error = None.
C5_FetchedUntagged ==
    \A t \in Tasks :
        (pc[t] = "returned" /\ Got200(t)) => intel[t].error = None

\* C6: the first GET for a domain goes to the https scheme; the http scheme
\* is tried only if the https attempt did not return HTTP 200; once an
\* attempt returns 200 no other scheme is requested; and every repeat
\* measurement GET goes to the final (post-redirect) URL of the successful
\* attempt.  reqs[t] lists the GETs of the fetch in the order issued: the
\* first GETs of the schemes, then the repeats.
C6_SchemeOrder ==
    \A t \in Tasks :
        LET rq == reqs[t]
            at == loc[t].attempts
            n == Len(at)
        IN  /\ n <= 2 /\ n <= Len(rq)
            /\ \A i \in 1..n : rq[i] = at[i].url
            /\ n >= 1 => rq[1] = Url("https", cfg.domains[t], "")
            /\ n = 2 => rq[2] = Url("http", cfg.domains[t], "")
            /\ \A i \in 1..(n - 1) : at[i].status # 200
            /\ \A i \in (n + 1)..Len(rq) :
                  at[n].status = 200 /\ rq[i] = at[n].ended_at

\* C6 witness: https answered without 200, http answered 200 after a
\* redirect to another host name, and the repeats were requested
C6_FallbackThenRepeats ==
    \E t \in Tasks :
        /\ pc[t] = "returned"
        /\ AttemptStatuses(t) \in {<<404, 200>>, <<503, 200>>}
        /\ loc[t].attempts[2].ended_at.www
        /\ Len(reqs[t]) = 2 + (cfg.measurement_rounds - 1)

\* The positions of analyze_website after _fetch_with_measurements
AfterFetch == {"parse", "headers", "pages", "probing", "aggregate", "returned"}

\* C7: after a successful fetch with R >= 1 measurement rounds the number
\* of recorded load-time samples is 1 plus the number of repeat requests
\* that did not raise, hence between 1 and R, and all R - 1 repeats were
\* made; a repeat request that raises adds no sample, leaves status_code,
\* final_url and error unchanged, and stops neither the remaining repeats
\* nor the later phases.
C7_SamplesCountRepeats ==
    /\ [](\A t \in Tasks :
            (pc[t] \in AfterFetch /\ Got200(t)) =>
                /\ Len(intel[t].samples) = 1 + loc[t].repeats_ok
                /\ Len(intel[t].samples) \in 1..cfg.measurement_rounds
                /\ loc[t].repeats_ok + loc[t].repeats_raised
                      = cfg.measurement_rounds - 1)
    /\ [][\A t \in Tasks :
            (pc[t] = "repeat"
                /\ loc'[t].repeats_raised = loc[t].repeats_raised + 1) =>
                /\ loc'[t].load_times = loc[t].load_times
                /\ intel'[t].status_code = intel[t].status_code
                /\ intel'[t].final_url = intel[t].final_url
                /\ intel'[t].error = intel[t].error
                /\ pc'[t] = IF loc[t].rounds_left > 1 THEN "repeat"
                            ELSE "parse"]_vars

\* C7 witness: a returned record with fewer samples than rounds, one repeat
\* having raised before another one succeeded
C7_RaisedRepeatSkipped ==
    \E t \in Tasks :
        /\ pc[t] = "returned"
        /\ Got200(t)
        /\ loc[t].repeats_raised = 1
        /\ Len(intel[t].samples) = 2
        /\ Len(intel[t].samples) < cfg.measurement_rounds

\* The phases of analyze_website in their order
PhaseOrder == <<"fetch", "parse", "headers", "probe", "aggregate">>

PhaseRank(ph) == CHOOSE i \in 1..Len(PhaseOrder) : PhaseOrder[i] = ph

\* C8: for a single domain the phases run in the fixed order fetch, HTML
\* parse, header parse, page probes, aggregation; no page probe is issued
\* before the fetch with all its repeat requests has finished;
\* calculate_overall_scores runs exactly once, as the last step, whatever
\* the outcome of the earlier phases; and no field of the record is
\* modified after it.
C8_PhaseOrder ==
    /\ [](\A t \in Tasks :
            LET ph == loc[t].phases
            IN  /\ \A i \in 1..Len(ph) : \A j \in 1..Len(ph) :
                      i < j => PhaseRank(ph[i]) < PhaseRank(ph[j])
                /\ probe[t] # NoProbes =>
                      /\ pc[t] \in {"probing", "aggregate", "returned"}
                      /\ ph[1] = "fetch" /\ ph[Len(ph)] \in {"probe", "aggregate"}
                      /\ loc[t].rounds_left = 0
                      /\ Len(reqs[t]) = Len(loc[t].attempts)
                            + loc[t].repeats_ok + loc[t].repeats_raised
                /\ loc[t].aggregations =
                      IF pc[t] = "returned" THEN 1 ELSE 0
                /\ pc[t] = "returned" =>
                      ph[1] = "fetch" /\ ph[Len(ph)] = "aggregate")
    /\ [][\A t \in Tasks :
            /\ probe[t] # NoProbes => reqs'[t] = reqs[t]
            /\ pc[t] = "returned" => intel'[t] = intel[t]]_vars

\* C8 witness: a call that returned after running all five phases, its
\* probes answered
C8_AllPhasesRan ==
    \E t \in Tasks :
        /\ pc[t] = "returned"
        /\ loc[t].phases = PhaseOrder
        /\ \E p \in DOMAIN probe[t] : probe[t][p].exists

\* The probes holding a permit of the page checker's semaphore
ProbesInFlight ==
    {tp \in {<<t, p>> : t \in Tasks, p \in CatalogPaths \cup BlogPathSet} :
        /\ tp[2] \in DOMAIN probe[tp[1]]
        /\ probe[tp[1]][tp[2]].st \in {"head", "get"}}

\* C9: _check_page_exists issues a HEAD request first and issues one GET
\* request if and only if the HEAD response status is 405; it returns True
\* if and only if the last response received has status 200; in every
\* other case, a raised request included, it returns False without
\* raising; and the probe permit is released in every case.
C9_HeadThenGetOn405 ==
    /\ \A t \in Tasks : \A p \in DOMAIN probe[t] :
          LET pr == probe[t][p]
          IN  /\ pr.heads = IF pr.st = "wait" THEN 0 ELSE 1
              /\ pr.gets = IF pr.st \in {"get", "done"} /\ pr.head_status = 405
                           THEN 1 ELSE 0
              /\ pr.st = "get" => pr.head_status = 405
              /\ pr.st = "done" =>
                    /\ pr.exists = (pr.last_status = 200)
                    /\ pr.raised => ~pr.exists
                    /\ ~pr.threw
              /\ pr.st # "done" => ~pr.exists
    /\ psem + Cardinality(ProbesInFlight) = cfg.probe_max_concurrent
    /\ psem >= 0

\* C9 witness: all probes of a domain ended and every permit is back, one
\* of them after a HEAD answered 405 followed by a GET that raised, one
\* after a GET answered 200, one after a HEAD that raised
C9_EveryProbeEnding ==
    \E t \in Tasks :
        /\ \A p \in DOMAIN probe[t] : probe[t][p].st = "done"
        /\ psem = cfg.probe_max_concurrent
        /\ \E p \in DOMAIN probe[t] :
              LET pr == probe[t][p]
              IN  pr.head_status = 405 /\ pr.gets = 1 /\ pr.raised
        /\ \E p \in DOMAIN probe[t] :
              LET pr == probe[t][p]
              IN  pr.head_status = 405 /\ pr.gets = 1 /\ pr.exists
        /\ \E p \in DOMAIN probe[t] :
              LET pr == probe[t][p]
              IN  pr.gets = 0 /\ pr.raised

\* The probed candidate paths of an attribute that were found to exist
ExistingCandidates(t, attr) ==
    {p \in CandidatePaths(attr) \cap DOMAIN probe[t] : probe[t][p].exists}

\* C10: after check_pages, each catalog attribute is true if and only if
\* it was already true before probing or at least one of its candidate
\* paths exists; probing never changes an attribute from true to false; and
\* the outcome does not depend on the order in which the probes complete
\* (it is a function of the attribute before probing and of the probes'
\* results, in every interleaving of the probes).
C10_AnyCandidateSets ==
    /\ [](\A t \in Tasks :
            (probe[t] # NoProbes /\ pc[t] \in {"aggregate", "returned"}) =>
                \A attr \in CatalogAttrs :
                    intel[t][attr] =
                        (loc[t].before_probes[attr]
                            \/ ExistingCandidates(t, attr) # {}))
    /\ [][\A t \in Tasks : \A attr \in CatalogAttrs :
            (pc[t] = "probing" /\ intel[t][attr]) => intel'[t][attr]]_vars

\* C10 witness: check_pages ended with an attribute that HTML analysis had
\* set and none of whose paths exists, an attribute set by its second
\* candidate only, and the other attributes still false
C10_SetByLaterCandidate ==
    \E t \in Tasks :
        /\ pc[t] = "aggregate"
        /\ loc[t].before_probes["has_pricing_page"]
        /\ ExistingCandidates(t, "has_pricing_page") = {}
        /\ intel[t]["has_pricing_page"]
        /\ ~loc[t].before_probes["has_contact_page"]
        /\ ExistingCandidates(t, "has_contact_page") = {"/contact-us"}
        /\ intel[t]["has_contact_page"]
        /\ ~intel[t]["has_about_page"]

\* The numeric value of a performance grade
GradeValue ==
    [ g \in {"A", "B", "C", "D", "F", "unknown"} |->
        CASE g = "A" -> 100 [] g = "B" -> 85 [] g = "C" -> 70
          [] g = "D" -> 55 [] g = "F" -> 40 [] g = "unknown" -> 50 ]

\* 100 times the weighted sum of the group scores of a record
WeightedHundredths(r) ==
    25 * GradeValue[r.performance_grade] + 20 * r.seo_score
        + 20 * r.security_headers_score + 15 * r.accessibility_score
        + 20 * r.business_legitimacy_score

\* C11: after aggregation, overall_score = floor((25*P + 20*seo_score
\* + 20*security_headers_score + 15*accessibility_score
\* + 20*business_legitimacy_score) / 100), where P is the numeric value of
\* the performance grade (A:100, B:85, C:70, D:55, F:40, unknown:50), for
\* every combination of group scores.
C11_OverallIsWeightedFloor ==
    \A t \in Tasks :
        pc[t] = "returned" =>
            intel[t].overall_score = WeightedHundredths(intel[t]) \div 100

\* C11 witness: an aggregated record whose weighted sum is no integer, so
\* that the truncation decides the score, with a grade other than A
C11_TruncatedSum ==
    \E t \in Tasks :
        /\ pc[t] = "returned"
        /\ intel[t].performance_grade = "D"
        /\ WeightedHundredths(intel[t]) % 100 # 0
        /\ intel[t].overall_score > 0

\* The issue points _calculate_buyer_priority adds up for a record
IssuesScore(r) ==
      (IF RatGt(r.trimmed_mean, 3000) THEN 20
       ELSE IF RatGt(r.trimmed_mean, 2000) THEN 10 ELSE 0)
    + (IF ~r.has_ssl THEN 25 ELSE 0)
    + (IF r.security_headers_score < 50 THEN 15 ELSE 0)
    + (IF r.seo_score < 50 THEN 20 ELSE 0)
    + (IF r.is_outdated_cms THEN 25 ELSE 0)

\* C12: after aggregation, buyer_priority_score = floor(issues_score *
\* business_legitimacy_score / 100), where issues_score adds 20 for a
\* trimmed mean load time above 3 s (else 10 above 2 s), 25 without SSL,
\* 15 for security_headers_score < 50, 20 for seo_score < 50 and 25 for an
\* outdated CMS; hence 0 <= buyer_priority_score <= 105, and the score is 0
\* when the legitimacy score is 0.
C12_PriorityIsFloor ==
    \A t \in Tasks :
        pc[t] = "returned" =>
            /\ intel[t].buyer_priority_score =
                 (IssuesScore(intel[t]) * intel[t].business_legitimacy_score)
                     \div 100
            /\ intel[t].buyer_priority_score \in 0..105
            /\ intel[t].business_legitimacy_score = 0 =>
                 intel[t].buyer_priority_score = 0

\* C13: for every combination of populated input fields, after aggregation
\* seo_score, security_headers_score, accessibility_score,
\* business_legitimacy_score and the numeric performance score are integers
\* in 0..100, overall_score is in 0..100 and buyer_priority_score >= 0.
C13_ScoresInRange ==
    \A t \in Tasks :
        pc[t] = "returned" =>
            /\ intel[t].seo_score \in 0..100
            /\ intel[t].security_headers_score \in 0..100
            /\ intel[t].accessibility_score \in 0..100
            /\ intel[t].business_legitimacy_score \in 0..100
            /\ GetNumericScore(intel[t]) \in 0..100
            /\ intel[t].overall_score \in 0..100
            /\ intel[t].buyer_priority_score \in Nat

\* C13 witness: an aggregated record whose SEO points fell below 0 before
\* the clamp while its business and security scores reached 100
C13_ClampedAtBothEnds ==
    \E t \in Tasks :
        /\ pc[t] = "returned"
        /\ SeoRawScore(intel[t]) < 0
        /\ intel[t].seo_score = 0
        /\ intel[t].business_legitimacy_score = 100
        /\ intel[t].security_headers_score = 100

\* The fields calculate_overall_scores assigns
AggregatedFields(r) ==
    << r.performance_grade, r.seo_score, r.security_headers_score,
       r.accessibility_score, r.business_legitimacy_score,
       r.overall_score, r.buyer_priority_score >>

\* C14: aggregation is idempotent: a second call of calculate_overall_scores
\* on an aggregated record leaves performance_grade, the four group scores,
\* overall_score and buyer_priority_score as the first call set them.
C14_AggregationIdempotent ==
    [][ \A t \in Tasks :
          (loc[t].aggregations >= 1 /\ loc'[t].aggregations = loc[t].aggregations + 1)
              => AggregatedFields(intel'[t]) = AggregatedFields(intel[t]) ]_vars

\* C14 witness: a record aggregated twice, with a legitimacy score strictly
\* between 0 and 100 and a positive buyer priority
C14_AggregatedTwice ==
    \E t \in Tasks :
        /\ loc[t].aggregations = 2
        /\ intel[t].business_legitimacy_score \in 1..99
        /\ intel[t].buyer_priority_score > 0
        /\ intel[t].performance_grade # "A"

\* The analysis of domain b has returned its record while the analysis of
\* domain a has not finished
CompletedBefore(b, a) ==
    IF a \in Tasks /\ b \in Tasks
    THEN pc[b] = "returned" /\ ~Finished(a)
    ELSE FALSE

\* No record of domain a stands before a record of domain b in the result
StandsBefore(b, a) ==
    IF a \in Tasks /\ b \in Tasks
    THEN \A i \in RecordsOf(b), j \in RecordsOf(a) : i < j
    ELSE TRUE

ProbesWaiting(t) == {p \in DOMAIN probe[t] : probe[t][p].st = "wait"}

\* C16 as stated: the domain-analysis slots and the page-probe permits are
\* separate pools: a probe request acquires only the probe semaphore, never
\* the domain-analysis semaphore, and a domain whose page probes are slow
\* or waiting for probe permits does not keep other domains from obtaining
\* a top-level analysis slot.
C16_ProbingKeepsNoDomainOut ==
    /\ sem = cfg.max_concurrent - Cardinality(InSection)
    /\ psem = cfg.probe_max_concurrent - Cardinality(ProbesInFlight)
    /\ \A t, u \in Tasks :
           (pc[t] = "probing" /\ pc[u] = "acquire") => ENABLED Acquire(u)

\* C16, amended: the domain-analysis slots and the page-probe permits are
\* separate pools: a probe request acquires only the probe semaphore, never
\* the domain-analysis semaphore, and a domain whose page probes are slow
\* or waiting for probe permits holds its own analysis slot and no other:
\* another domain obtains a top-level analysis slot exactly when fewer than
\* max_concurrent domains are being analysed, however many probes are in
\* flight or waiting.
C16_ProbingHoldsOwnSlotOnly ==
    /\ sem = cfg.max_concurrent - Cardinality(InSection)
    /\ psem = cfg.probe_max_concurrent - Cardinality(ProbesInFlight)
    /\ \A u \in Tasks :
           pc[u] = "acquire" =>
               (ENABLED Acquire(u) <=>
                    Cardinality(InSection) < cfg.max_concurrent)

\* C16 witness: every probe permit is taken and a probe of a probing domain
\* waits for one while another domain waits for a slot that is free
C16_SlotFreeWhileProbesWait ==
    \E t, u \in Tasks :
        /\ pc[t] = "probing"
        /\ psem = 0
        /\ ProbesWaiting(t) # {}
        /\ pc[u] = "acquire"
        /\ ENABLED Acquire(u)

\* Both the https and the http attempt of task t were refused
BothRefused(t) ==
    /\ Len(loc[t].attempts) = 2
    /\ \A i \in 1..2 : loc[t].attempts[i].exc = "ConnectError"

\* C17: for a domain where both the https and the http attempt fail with
\* connection refused, the final record has error = "connection_failed",
\* security_headers_score = 0, each of the other four group scores
\* (performance, SEO, accessibility, business) is 0 or near 0 (at most 10
\* of 100), and overall_score is a low integer (below 50) that is present.
C17_RefusedScoresNearZero ==
    \A t \in Tasks :
        (pc[t] = "returned" /\ BothRefused(t)) =>
            /\ intel[t].error = "connection_failed"
            /\ intel[t].security_headers_score = 0
            /\ GetNumericScore(intel[t]) \in 0..10
            /\ intel[t].seo_score \in 0..10
            /\ intel[t].accessibility_score \in 0..10
            /\ intel[t].business_legitimacy_score \in 0..10
            /\ intel[t].overall_score \in 0..49

\* The first attempt of task t, on https, was answered 200 by a response
\* that carries none of the five security headers
FirstHttps200NoSecurityHeaders(t) ==
    /\ Len(loc[t].attempts) = 1
    /\ loc[t].attempts[1].url.scheme = "https"
    /\ loc[t].attempts[1].status = 200
    /\ loc[t].response_headers \cap SecurityHeaderNames = {}

\* C18 as stated: in the end-to-end scenario - the domain returns 200 on
\* the first HTTPS attempt and the response carries none of the five
\* security headers - the final record has security_headers_score = 0.
C18_NoHeadersScoreZero ==
    \A t \in Tasks :
        (pc[t] = "returned" /\ FirstHttps200NoSecurityHeaders(t)) =>
            intel[t].security_headers_score = 0

\* C18, amended: in the end-to-end scenario - the domain returns 200 on the
\* first HTTPS attempt and the response carries none of the five security
\* headers - the final record has security_headers_score = 30, the points
\* of has_ssl, when the final URL is an https URL, and 0 only when the
\* redirects ended on an http URL.
C18_NoHeadersScoreIsSslPoints ==
    \A t \in Tasks :
        (pc[t] = "returned" /\ FirstHttps200NoSecurityHeaders(t)) =>
            intel[t].security_headers_score =
                IF intel[t].final_url.scheme = "https" THEN 30 ELSE 0

\* C18 witness: a record returned after a 200 on https without security
\* headers whose final URL is still on https
C18_HttpsWithoutHeaders ==
    \E t \in Tasks :
        /\ pc[t] = "returned"
        /\ FirstHttps200NoSecurityHeaders(t)
        /\ loc[t].response_headers # {}
        /\ intel[t].final_url.scheme = "https"
        /\ intel[t].security_headers_score = 30

\* The statistics calculate leaves at their zero default for fewer than two
\* samples
DispersionStatistics(r) ==
    << r.percentile_90, r.percentile_95, r.std_dev.radicand, r.iqr,
       r.coefficient_of_variation.radicand, r.confidence_score >>

\* C19: LoadTimeMetrics.calculate never fails for a sample sequence of any
\* length >= 0; with 0 samples every derived statistic stays 0; with
\* exactly 1 sample, median = trimmed_mean = that sample and p90, p95,
\* std_dev, iqr, coefficient_of_variation and confidence_score stay 0.
C19_DegenerateSamples ==
    \A t \in Tasks :
        /\ pc[t] # "raised"
        /\ pc[t] = "calculated" =>
              LET r == intel[t]
                  zero == Rat(0, 1)
              IN  /\ Len(r.samples) = 0 =>
                        /\ r.median = zero /\ r.trimmed_mean = zero
                        /\ \A i \in 1..6 : DispersionStatistics(r)[i] = zero
                  /\ Len(r.samples) = 1 =>
                        /\ r.median = Rat(r.samples[1], 1)
                        /\ r.trimmed_mean = Rat(r.samples[1], 1)
                        /\ \A i \in 1..6 : DispersionStatistics(r)[i] = zero

\* C19 witness: calculate has returned on a single sample above zero
C19_OneSampleCalculated ==
    \E t \in Tasks :
        /\ pc[t] = "calculated"
        /\ Len(intel[t].samples) = 1
        /\ intel[t].samples[1] > 0
        /\ intel[t].median = Rat(intel[t].samples[1], 1)

\* The index k of the sub-batch domains[k*batch_size : (k+1)*batch_size]
\* that holds task t
SubBatchOf(t) == (t - 1) \div (2 * cfg.max_concurrent)

\* The analysis tasks that were started and have not finished
InFlight == {t \in Tasks : pc[t] # "unborn" /\ ~Finished(t)}

\* C20: the orchestrator processes the domain list in consecutive
\* sub-batches of 2*max_concurrent domains with a barrier between them: no
\* analysis of sub-batch k+1 starts before every analysis of sub-batch k
\* has finished, so the number of started-but-unfinished analysis tasks
\* never exceeds 2*max_concurrent, and every input domain belongs to
\* exactly one sub-batch (the one the loop starts it in, and every domain
\* has been started when analyze_batch returns).
C20_SubBatchBarrier ==
    /\ \A t, u \in Tasks :
           (SubBatchOf(t) < SubBatchOf(u) /\ pc[u] # "unborn") => Finished(t)
    /\ Cardinality(InFlight) <= 2 * cfg.max_concurrent
    /\ \A t \in Tasks :
           /\ Cardinality({i \in 1..Len(cfg.domains) :
                             i % BatchSize = 1 % BatchSize /\ t \in Batch(i)}) = 1
           /\ pc[t] # "unborn" =>
                  /\ t \in Batch(1 + SubBatchOf(t) * BatchSize)
                  /\ batchStart >= 1 + SubBatchOf(t) * BatchSize
    /\ opc = "done" => \A t \in Tasks : Finished(t)

\* C20 witness: the second sub-batch is running after the first one, a
\* full sub-batch, has finished and been collected
C20_SecondSubBatchRunning ==
    /\ opc = "gather"
    /\ batchStart = 1 + 2 * cfg.max_concurrent
    /\ \E u \in Tasks : SubBatchOf(u) = 1 /\ pc[u] \in SectionPoints
    /\ Cardinality({t \in Tasks : SubBatchOf(t) = 0}) = 2 * cfg.max_concurrent
    /\ Len(results) >= 1

\* Task t went through the slot-holding section: its first GET, the first
\* statement of the section, was issued
HeldSlot(t) == loc[t].attempts # <<>>

\* C21: assuming every HTTP request eventually completes (with a response,
\* an error or its own timeout), analyze_batch over any finite domain list
\* eventually returns: every analysis eventually acquires a domain slot,
\* finishes and releases it (in the end every task has finished, none
\* without having held a slot, and all slots and permits are free), and
\* holding a domain slot while waiting for page-probe permits never leads
\* to a deadlock (as long as analyze_batch has not returned, some coroutine
\* can take a step).
C21_BatchReturns ==
    /\ <>[](/\ opc = "done"
            /\ \A t \in Tasks : Finished(t)
            /\ sem = cfg.max_concurrent
            /\ psem = cfg.probe_max_concurrent)
    /\ [](\A t \in Tasks : Finished(t) => HeldSlot(t))
    /\ [](opc # "done" => ENABLED Step)

\* C21 witness: every analysis slot is held by a probing domain that has
\* probes waiting for a permit, every probe permit is taken, and another
\* domain waits for a slot
C21_SlotsHeldWhileProbesWait ==
    /\ sem = 0
    /\ psem = 0
    /\ InSection # {}
    /\ \A t \in InSection : pc[t] = "probing" /\ ProbesWaiting(t) # {}
    /\ \E u \in Tasks : pc[u] = "acquire"

\* The record _fetch_with_measurements leaves after the first GETs at, in
\* order, of a call whose locals are l
RECURSIVE ReplayAttempts(_, _, _)
ReplayAttempts(at, l, r) ==
    IF at = <<>> THEN r
    ELSE LET a == Head(at)
             r1 == IF a.status = 200
                   THEN [r EXCEPT !.status_code = 200,
                                  !.final_url = a.ended_at,
                                  !.has_ssl = StartsWithHttps(a.ended_at),
                                  !.html_size_bytes = l.html_content.size]
                   ELSE IF a.exc = None
                   THEN [r EXCEPT !.status_code = a.status,
                                  !.final_url = a.ended_at]
                   ELSE OnFetchException(Raise(a.exc), r)
         IN  ReplayAttempts(Tail(at), l, r1)

\* The record analyze_website returns for domain d when it is the only
\* domain analysed and the network answers its requests as recorded in the
\* locals l and the probes pr
AnalysedAlone(d, l, pr) ==
    LET fetched == FinishFetch(l.load_times,
                               ReplayAttempts(l.attempts, l, NewIntel(d)))
        parsed == IF l.parse_stages >= 0
                  THEN HTMLAnalyze(l.html_content, l.parse_stages, fetched)
                  ELSE fetched
        headed == IF l.response_headers # {}
                  THEN ParseSecurityHeaders(l.response_headers, parsed)
                  ELSE parsed
        main == ApplyMainPages(1, pr, headed)
        blog == ApplyBlog(DOMAIN pr \cap BlogPathSet, pr, main)
    IN  CalculateOverallScores(blog)

\* What task t owns: its position, its locals, its probes and its record
Owned(t) == <<pc[t], loc[t], probe[t], intel[t]>>

\* C22: in every interleaving of concurrent analyses, each write to a
\* WebsiteIntelligence record is made by the analysis task of that record's
\* own domain (a step that changes the record of a domain is a step of that
\* domain's task and changes the record of no other domain), and the final
\* record of a domain equals the record obtained when that domain is
\* analysed alone with the same network responses.
C22_RecordsIsolated ==
    /\ [][\A t \in Tasks :
            intel'[t] # intel[t] =>
                /\ pc[t] \in SectionPoints
                /\ <<pc'[t], loc'[t]>> # <<pc[t], loc[t]>>
                /\ \A u \in Tasks \ {t} : Owned(u)' = Owned(u)]_vars
    /\ [](\A t \in Tasks :
            pc[t] = "returned" =>
                intel[t] = AnalysedAlone(cfg.domains[t], loc[t], probe[t]))

\* C22 witness: two analyses ran at the same time, the network answered
\* them differently and both have returned: one fetched and probed its
\* pages, finding the about page, the other failed on both schemes
C22_TwoDifferentRecords ==
    \E t, u \in Tasks :
        /\ pc[t] = "returned" /\ pc[u] = "returned"
        /\ intel[t].status_code = 200 /\ intel[t].has_about_page
        /\ intel[u].error = "connection_failed" /\ ~intel[u].has_about_page
        /\ intel[u].status_code # 200
        /\ loc[u].phases[Len(loc[u].phases)] = "aggregate"

\* The input fields of the five metric groups (performance, SEO, security,
\* accessibility, business): every field but the scores they calculate
MetricInputNames ==
    { "samples", "median", "trimmed_mean", "percentile_90", "percentile_95",
      "std_dev", "iqr", "coefficient_of_variation", "confidence_score",
      "html_size_bytes", "ttfb",
      "has_meta_description", "has_og_tags", "has_twitter_cards",
      "has_structured_data", "has_sitemap", "has_robots_txt", "canonical_url",
      "h1_count", "h2_count", "image_count", "images_without_alt",
      "has_ssl", "has_hsts", "has_csp", "has_x_frame_options",
      "has_x_content_type_options", "has_x_xss_protection",
      "has_lang_attribute", "has_skip_link", "forms_have_labels",
      "images_have_alt", "has_aria_landmarks",
      "has_contact_page", "has_contact_form", "has_phone_number", "has_email",
      "has_physical_address", "has_social_links", "social_platforms",
      "has_blog", "has_pricing_page", "has_about_page", "has_privacy_policy",
      "has_terms_of_service", "copyright_year" }

MetricInputs(r) == [f \in MetricInputNames |-> r[f]]

\* C23: when neither scheme yields 200, no load-time sample is recorded and
\* none of HTML parse, header parse or page probing runs (no probe request
\* is issued for the domain), so every input field of the five metric
\* groups still has its default value when aggregation runs.
C23_FailedFetchLeavesDefaults ==
    \A t \in Tasks :
        (pc[t] \in {"aggregate", "returned"} /\ ~Got200(t)) =>
            /\ intel[t].samples = <<>>
            /\ loc[t].load_times = <<>>
            /\ loc[t].parse_stages = -1
            /\ \A i \in 1..Len(loc[t].phases) :
                   loc[t].phases[i] \in {"fetch", "aggregate"}
            /\ probe[t] = NoProbes
            /\ Len(reqs[t]) = Len(loc[t].attempts)
            /\ psem = cfg.probe_max_concurrent
            /\ MetricInputs(intel[t]) = MetricInputs(NewIntel(cfg.domains[t]))

\* C23 witness: aggregation is about to run for a domain that answered both
\* schemes without a 200, leaving a status and a final URL in the record
C23_AggregatingAfterNon200 ==
    \E t \in Tasks :
        /\ pc[t] = "aggregate"
        /\ Len(loc[t].attempts) = 2
        /\ \A i \in 1..2 : loc[t].attempts[i].status \notin {0, 200}
        /\ intel[t].final_url # NoUrl
        /\ intel[t].status_code # 0

\* The components of a version that is_outdated reads, the first two, are
\* integers
ParsesToIntegers(version) ==
    \A i \in 1..Min2(2, Len(version)) : version[i] >= 0

\* The minor version of a table entry (none counts as 0)
CurrentMinor(current) == IF Len(current) > 1 THEN current[2] ELSE 0

\* C24: is_outdated(cms, version) is true iff cms has an entry in the
\* current-version table, version parses to integers (the major and minor
\* components, which are all the method reads), and either detected major <
\* current major - 1, or detected major = current major - 1 and current
\* minor > 5; in particular with wordpress current "6.4", detected "4.0"
\* and "4.9" are outdated and detected "5.9" is not, and a CMS with no
\* detected version or no table entry is never outdated.
C24_OutdatedRule ==
    \A t \in Tasks :
        pc[t] = "detected" =>
            LET cms == intel[t].cms_detected
                version == intel[t].cms_version
                table == cfg.current_versions
                outdated == intel[t].is_outdated_cms
            IN  /\ outdated <=>
                      /\ cms \in DOMAIN table
                      /\ version # <<>>
                      /\ ParsesToIntegers(version)
                      /\ \/ version[1] < table[cms][1] - 1
                         \/ /\ version[1] = table[cms][1] - 1
                            /\ CurrentMinor(table[cms]) > 5
                /\ (cms = "wordpress" /\ table[cms] = <<6, 4>>) =>
                      /\ version \in {<<4, 0>>, <<4, 9>>} => outdated
                      /\ version = <<5, 9>> => ~outdated
                /\ (version = <<>> \/ cms \notin DOMAIN table) => ~outdated

\* C24 witness: WordPress 5.9 checked against current 6.6 is outdated, one
\* major behind a current minor above 5
C24_OneBehindHighMinor ==
    \E t \in Tasks :
        /\ pc[t] = "detected"
        /\ intel[t].cms_detected = "wordpress"
        /\ intel[t].cms_version = <<5, 9>>
        /\ cfg.current_versions["wordpress"] = <<6, 6>>
        /\ intel[t].is_outdated_cms

\* The smallest and the largest element of a non-empty sequence
MinOf(s) == CHOOSE x \in {s[i] : i \in DOMAIN s} : \A i \in DOMAIN s : x <= s[i]

MaxOf(s) == CHOOSE x \in {s[i] : i \in DOMAIN s} : \A i \in DOMAIN s : x >= s[i]

\* The sequence s without its element at position i
Without(s, i) == SubSeq(s, 1, i - 1) \o SubSeq(s, i + 1, Len(s))

\* s with k smallest and k largest elements removed, one of each at a time
RECURSIVE DropExtremes(_, _)
DropExtremes(s, k) ==
    IF k = 0 THEN s
    ELSE LET i == CHOOSE j \in DOMAIN s : s[j] = MinOf(s)
             s1 == Without(s, i)
             m == CHOOSE j \in DOMAIN s1 : s1[j] = MaxOf(s1)
         IN  DropExtremes(Without(s1, m), k - 1)

\* C25: for n >= 2 samples, trimmed_mean is the mean of all samples when
\* n <= 4, and otherwise the mean of the ascending-sorted samples with the
\* k = max(1, n div 10) smallest and the k largest removed; the retained
\* set is never empty for any n, and trimmed_mean lies between the minimum
\* and the maximum sample.
C25_TrimmedMean ==
    \A t \in Tasks :
        (pc[t] = "calculated" /\ Len(intel[t].samples) >= 2) =>
            LET s == intel[t].samples
                n == Len(s)
                k == Max2(1, n \div 10)
                retained == IF n <= 4 THEN s ELSE DropExtremes(s, k)
                tm == intel[t].trimmed_mean
            IN  /\ Len(retained) >= 1
                /\ n > 4 => Len(retained) = n - 2 * k
                /\ tm.den > 0
                /\ tm.num * Len(retained) = SumSeq(retained) * tm.den
                /\ MinOf(s) * tm.den <= tm.num
                /\ tm.num <= MaxOf(s) * tm.den

\* C25 witness: calculate has returned on twenty samples given out of
\* order, of which the two smallest and the two largest were removed, the
\* trimmed mean differing from the mean of all samples
C25_TwoTrimmedAtEachEnd ==
    \E t \in Tasks :
        /\ pc[t] = "calculated"
        /\ Len(intel[t].samples) = LongSamples
        /\ Max2(1, Len(intel[t].samples) \div 10) = 2
        /\ intel[t].samples[1] = 300 /\ intel[t].samples[2] = 0
        /\ intel[t].trimmed_mean.num * Len(intel[t].samples)
              # SumSeq(intel[t].samples) * intel[t].trimmed_mean.den

\* The probe requests of task t that are in flight
InFlightOf(t) == {tp \in ProbesInFlight : tp[1] = t}

\* C26: across all domains analysed concurrently by one scraper, the total
\* number of in-flight page-probe requests never exceeds the page checker's
\* max_concurrent: all domains share one PageChecker and its single
\* semaphore, so the limit is global over the batch rather than a separate
\* allowance per domain (a probe starts its request only while fewer than
\* max_concurrent requests of all domains together are in flight).
C26_GlobalProbeLimit ==
    /\ Cardinality(ProbesInFlight) <= cfg.probe_max_concurrent
    /\ \A t \in Tasks : \A p \in DOMAIN probe[t] :
           (probe[t][p].st = "wait" /\ ENABLED ProbeAcquire(t, p)) =>
               Cardinality(ProbesInFlight) < cfg.probe_max_concurrent

\* C26 witness: two domains probe at the same time, each with fewer
\* requests in flight than the limit and each with a probe waiting, the
\* requests of both together having reached the limit
C26_LimitReachedAcrossDomains ==
    \E t, u \in Tasks :
        /\ t # u
        /\ InFlightOf(t) # {} /\ InFlightOf(u) # {}
        /\ Cardinality(InFlightOf(t)) < cfg.probe_max_concurrent
        /\ Cardinality(InFlightOf(u)) < cfg.probe_max_concurrent
        /\ Cardinality(ProbesInFlight) = cfg.probe_max_concurrent
        /\ ProbesWaiting(t) # {} /\ ProbesWaiting(u) # {}

\* The status of the last response among the first GETs of task t (0: no
\* request was answered)
RECURSIVE LastResponseStatus(_)
LastResponseStatus(at) ==
    IF at = <<>> THEN 0
    ELSE IF at[Len(at)].status # 0 THEN at[Len(at)].status
    ELSE LastResponseStatus(SubSeq(at, 1, Len(at) - 1))

\* Page probing was performed for the domain of task t
Probed(t) == \E i \in 1..Len(loc[t].phases) : loc[t].phases[i] = "probe"

\* C27: after analyze_website, the following are equivalent: status_code =
\* 200; at least one load-time sample was recorded; page probing was
\* performed for the domain.  When no scheme returned 200, status_code is 0
\* or the status of the last non-200 response received and samples is
\* empty.
C27_FetchedIffSampledIffProbed ==
    \A t \in Tasks :
        pc[t] = "returned" =>
            /\ (intel[t].status_code = 200) <=> (Len(intel[t].samples) >= 1)
            /\ (Len(intel[t].samples) >= 1) <=> Probed(t)
            /\ Probed(t) <=> (probe[t] # NoProbes)
            /\ (intel[t].status_code = 200) <=> Got200(t)
            /\ ~Got200(t) =>
                  /\ intel[t].samples = <<>>
                  /\ intel[t].status_code = LastResponseStatus(loc[t].attempts)
                  /\ intel[t].status_code # 200

\* C27 witness: a call returned after https was answered 404 and http
\* raised: the status is that of the https response, there is no sample
\* and no probe
C27_StatusOfEarlierResponse ==
    \E t \in Tasks :
        /\ pc[t] = "returned"
        /\ AttemptStatuses(t) = <<404, 0>>
        /\ intel[t].status_code = 404
        /\ intel[t].samples = <<>>
        /\ ~Probed(t)

\* No analysis is in progress: every task is still to be created or has
\* finished
Quiescent == \A t \in Tasks : pc[t] = "unborn" \/ Finished(t)

\* C28: no permit is ever leaked: whenever no analysis is in progress (in
\* particular after analyze_batch returns) all max_concurrent domain slots
\* and all probe permits are free again, including after analyses whose
\* fetch failed, whose probes raised or timed out, or whose task raised.
C28_NoPermitLeaked ==
    /\ Quiescent => /\ sem = cfg.max_concurrent
                    /\ psem = cfg.probe_max_concurrent
    /\ opc = "done" => Quiescent
    /\ \A t \in Tasks :
           Finished(t) => \A p \in DOMAIN probe[t] : probe[t][p].st = "done"

\* C28 witness: analyze_batch has returned after one analysis whose fetch
\* failed on both schemes, one whose probe request raised and one whose
\* task raised
C28_ReturnedAfterEveryFailure ==
    /\ opc = "done"
    /\ \E t \in Tasks : pc[t] = "returned" /\ ~Got200(t)
                        /\ Len(loc[t].attempts) = 2
    /\ \E u \in Tasks : \E p \in DOMAIN probe[u] : probe[u][p].raised
    /\ \E v \in Tasks : pc[v] = "raised"

\* The failure tag of an exception class
TagOf ==
    [ e \in ExceptionKinds |->
        CASE e = "TimeoutException" -> "timeout"
          [] e = "ConnectError"     -> "connection_failed"
          [] e = "TooManyRedirects" -> "too_many_redirects"
          [] e = "Exception"        -> "message" ]

\* The tag of the last first GET that raised among at (None: none raised)
RECURSIVE LastRaisedTag(_)
LastRaisedTag(at) ==
    IF at = <<>> THEN None
    ELSE IF at[Len(at)].exc # None THEN TagOf[at[Len(at)].exc]
    ELSE LastRaisedTag(SubSeq(at, 1, Len(at) - 1))

C30_FailedFetchScores ==
    \A t \in Tasks :
        (pc[t] = "returned" /\ ~Got200(t)) =>
            /\ intel[t].performance_grade = "A"
            /\ GetNumericScore(intel[t]) = 100
            /\ intel[t].seo_score = 0
            /\ intel[t].security_headers_score = 0
            /\ intel[t].accessibility_score = 45
            /\ intel[t].business_legitimacy_score = 0
            /\ intel[t].overall_score = 31
            /\ intel[t].buyer_priority_score = 0

\* C30 witness: a call returned after https raised and http was answered
\* 503, with the scores of a record that was never populated
C30_FailedFetchReturned ==
    \E t \in Tasks :
        /\ pc[t] = "returned"
        /\ AttemptStatuses(t) = <<0, 503>>
        /\ intel[t].status_code = 503
        /\ intel[t].overall_score = 31
        /\ intel[t].accessibility_score = 45

============================================================================
